---- MODULE Spec2Model ----
(***************************************************************************)
(* Scope hoisting pass of native-packages/js-swc/src/hoist.rs.             *)
(*                                                                         *)
(* hoist() runs Collect (a read-only visitor) over a module and then Hoist *)
(* (a folder) over the same module.  The model keeps the module as a tree  *)
(* of records, one record per AST node, and translates every visitor and   *)
(* folder method into an operator that threads the pass's state.  The      *)
(* state machine takes one step per module item of Collect::visit_module   *)
(* and one step per iteration of the loop of Hoist::fold_module.           *)
(***************************************************************************)
EXTENDS Integers, Sequences, FiniteSets, TLC

\* ------------------------------------------------------------------ bounds

\* Longest module body (number of module items) the model explores.
MaxItems == 2

\* ------------------------------------------------------------- AST records

\* Syntax contexts: E is SyntaxContext::empty(), G is empty().apply_mark(global_mark),
\* F is the context of a binding of a nested scope, I carries ignore_mark.
CtxtEmpty == "E"
CtxtGlobal == "G"
CtxtFn == "F"
CtxtIgnored == "I"

\* DUMMY_SP: position 0, empty context.
DUMMY_POS == 0

None == [t |-> "None"]

Ident(sym, pos, ctxt) == [t |-> "Ident", sym |-> sym, pos |-> pos, ctxt |-> ctxt]
Str(value) == [t |-> "Str", value |-> value]
Num(value) == [t |-> "Num", value |-> value]
Member(obj, prop, computed, pos) ==
  [t |-> "Member", obj |-> obj, prop |-> prop, computed |-> computed, pos |-> pos]
Call(callee, args, pos) == [t |-> "Call", callee |-> callee, args |-> args, pos |-> pos]
Assign(left, right) == [t |-> "Assign", left |-> left, right |-> right]
This(pos) == [t |-> "This", pos |-> pos]
Unary(op, arg, pos) == [t |-> "Unary", op |-> op, arg |-> arg, pos |-> pos]
SeqExpr(exprs) == [t |-> "Seq", exprs |-> exprs]
Await(arg) == [t |-> "Await", arg |-> arg]
Bin(left, right) == [t |-> "Bin", left |-> left, right |-> right]
Function(params, body) == [t |-> "Function", params |-> params, body |-> body]
FnExpr(function) == [t |-> "Fn", function |-> function]
Arrow(params, body) == [t |-> "Arrow", params |-> params, body |-> body]
Class(methods) == [t |-> "Class", methods |-> methods]

PatIdent(id) == [t |-> "PatIdent", id |-> id]
PatObject(props) == [t |-> "PatObject", props |-> props]
PatArray(elems) == [t |-> "PatArray", elems |-> elems]
PatExpr(expr) == [t |-> "PatExpr", expr |-> expr]
PatAssign(left, right) == [t |-> "PatAssign", left |-> left, right |-> right]
KeyValuePatProp(key, value) == [t |-> "KeyValue", key |-> key, value |-> value]
AssignPatProp(key, value) == [t |-> "AssignProp", key |-> key, value |-> value]
RestPat(arg) == [t |-> "Rest", arg |-> arg]
Computed(expr) == [t |-> "Computed", expr |-> expr]

ExprStmt(expr) == [t |-> "ExprStmt", expr |-> expr]
VarDeclarator(name, init) == [t |-> "VarDeclarator", name |-> name, init |-> init]
VarDecl(kind, decls) == [t |-> "VarDecl", kind |-> kind, decls |-> decls]
FnDecl(ident, function) == [t |-> "FnDecl", ident |-> ident, function |-> function]
ClassDecl(ident, class) == [t |-> "ClassDecl", ident |-> ident, class |-> class]
ReturnStmt(arg) == [t |-> "Return", arg |-> arg]
IfStmt(test, cons) == [t |-> "If", test |-> test, cons |-> cons]

ImportSpecifier(kind, local, imported, pos) ==
  [t |-> "ImportSpecifier", kind |-> kind, local |-> local, imported |-> imported, pos |-> pos]
ImportDecl(specifiers, src) == [t |-> "Import", specifiers |-> specifiers, src |-> src]
ExportSpecifier(kind, orig, exported, pos) ==
  [t |-> "ExportSpecifier", kind |-> kind, orig |-> orig, exported |-> exported, pos |-> pos]
NamedExport(specifiers, src) == [t |-> "ExportNamed", specifiers |-> specifiers, src |-> src]
ExportAll(src, pos) == [t |-> "ExportAll", src |-> src, pos |-> pos]
ExportDefaultExpr(expr, pos) == [t |-> "ExportDefaultExpr", expr |-> expr, pos |-> pos]
ExportDefaultDecl(kind, ident, body) ==
  [t |-> "ExportDefaultDecl", kind |-> kind, ident |-> ident, body |-> body]
ExportDecl(decl) == [t |-> "ExportDecl", decl |-> decl]

\* ----------------------------------------------------------------- helpers

\* id!: the identity of an identifier is its symbol and its syntax context.
id(ident) == <<ident.sym, ident.ctxt>>

\* HashMap::insert and HashMap::entry(k).or_insert(v) on maps kept as functions.
Insert(m, k, v) == [x \in (DOMAIN m) \cup {k} |-> IF x = k THEN v ELSE m[x]]
\* entry(k).or_insert(v) mistaken for insert(k, v): the last writer wins.
EntryOverwrite(m, k, v) == Insert(m, k, v)
EntryOrInsert(m, k, v) == IF k \in DOMAIN m THEN m ELSE Insert(m, k, v)
EmptyMap == << >>

\* hash!: DefaultHasher over the string, printed with {:x}.  The digests are
\* the ones the repository's tests record for these strings.
hash(s) ==
  CASE s = "other" -> "558d6cfb8af8a010"
    [] s = "foo" -> "ba02ad2230917043"
    [] s = "bar" -> "3705fc5f2281438d"
    [] s = "default" -> "9099ad97b570f7c"
    [] s = "x" -> "10b1f2ceae7ab64e"
    [] s = "a" -> "7ac649919d1c80a6"
    [] s = "b" -> "a91ade93898ecc38"
    [] s = "y" -> "57bbd0ca114c72e"

module_id == "abc"

\* format!("{}:{}", module_id, source) wrapped into a bare import declaration.
BareImport(source) == ImportDecl(<< >>, module_id \o ":" \o source)

\* Option<JsWord> returned by the matchers.
Some(v) == [some |-> TRUE, v |-> v]
NoMatch == [some |-> FALSE]

\* The static key of a member expression: foo.K or foo["K"].
StaticKey(member) ==
  IF member.prop.t = "Ident" THEN
    IF ~member.computed THEN Some(member.prop.sym) ELSE NoMatch
  ELSE IF member.prop.t = "Str" THEN Some(member.prop.value)
  ELSE NoMatch

\* utils::match_member_expr(expr, vec!["module", "exports"], decls): a static
\* `module.exports` whose `module` is a free identifier.
match_member_expr(member, decls) ==
  /\ StaticKey(member).some
  /\ StaticKey(member).v = "exports"
  /\ member.obj.t = "Ident"
  /\ member.obj.sym = "module"
  /\ id(member.obj) \notin decls

\* is_marked(span, ignore_mark)
is_marked(ident) == ident.ctxt = CtxtIgnored

match_call(node, callee, decls) ==
  IF /\ node.t = "Call"
     /\ node.callee.t = "Ident"
     /\ node.callee.sym = callee
     /\ (callee = "require" => id(node.callee) \notin decls)
     /\ ~is_marked(node.callee)
     /\ Len(node.args) > 0
     /\ node.args[1].t = "Str"
  THEN Some(node.args[1].value)
  ELSE NoMatch

match_require(node, decls) == match_call(node, "require", decls)

match_import(node) == match_call(node, "import", {})

RECURSIVE has_binding_identifier(_, _, _)
has_binding_identifier(node, sym, decls) ==
  CASE node.t = "PatIdent" -> node.id.sym = sym /\ id(node.id) \notin decls
    [] node.t = "PatObject" ->
         (\E i \in 1..Len(node.props) :
            LET prop == node.props[i] IN
              (CASE prop.t = "KeyValue" -> has_binding_identifier(prop.value, sym, decls)
                 [] prop.t = "AssignProp" -> prop.key.sym = sym /\ id(prop.key) \notin decls
                 [] prop.t = "Rest" -> has_binding_identifier(prop.arg, sym, decls)))
    [] node.t = "PatArray" ->
         (\E j \in 1..Len(node.elems) : has_binding_identifier(node.elems[j], sym, decls))
    [] OTHER -> FALSE

\* ----------------------------------------------------------------- Collect

\* Collect::new.  wrap_cause is a history field: the kinds of event that set
\* should_wrap so far.
CollectNew(decls) ==
  [ decls |-> decls,
    static_cjs_exports |-> TRUE,
    has_cjs_exports |-> FALSE,
    is_esm |-> FALSE,
    should_wrap |-> FALSE,
    imports |-> EmptyMap,
    exports |-> EmptyMap,
    non_static_access |-> {},
    non_static_requires |-> {},
    wrapped_requires |-> {},
    in_module_this |-> TRUE,
    in_top_level |-> TRUE,
    in_export_decl |-> FALSE,
    in_function |-> FALSE,
    wrap_cause |-> {} ]

ImportEntry(source, local, is_async, loc) ==
  [source |-> source, local |-> local, is_async |-> is_async, loc |-> loc]

RECURSIVE add_pat_props(_, _, _, _, _)
add_pat_props(c, props, i, src, is_import) ==
  IF i > Len(props) THEN c
  ELSE
    LET prop == props[i]
        nonstatic == [c EXCEPT !.non_static_requires = @ \cup {src}]
        c1 ==
          CASE prop.t = "KeyValue" ->
                 IF prop.key.t \notin {"Ident", "Str"} THEN nonstatic
                 ELSE
                   LET local == IF prop.key.t = "Ident" THEN prop.key.sym ELSE prop.key.value IN
                     IF prop.value.t = "PatIdent"
                     THEN [c EXCEPT !.imports =
                             Insert(@, id(prop.value.id),
                                    ImportEntry(src, local, is_import, prop.value.id.pos))]
                     ELSE nonstatic
            [] prop.t = "AssignProp" ->
                 [c EXCEPT !.imports =
                    Insert(@, id(prop.key), ImportEntry(src, prop.key.sym, is_import, prop.key.pos))]
            [] prop.t = "Rest" -> nonstatic
    IN add_pat_props(c1, props, i + 1, src, is_import)

add_pat_imports(c, node, src, is_import) ==
  LET c1 == IF ~c.in_top_level
            THEN [c EXCEPT !.wrapped_requires = @ \cup {src},
                           !.non_static_requires = IF ~is_import THEN @ \cup {src} ELSE @]
            ELSE c
  IN CASE node.t = "PatIdent" ->
            [c1 EXCEPT !.imports =
               Insert(@, id(node.id), ImportEntry(src, "*", is_import, node.id.pos))]
       [] node.t = "PatObject" -> add_pat_props(c1, node.props, 1, src, is_import)
       [] OTHER -> [c1 EXCEPT !.non_static_requires = @ \cup {src}]

\* node.visit_with(self): the visitor method Collect overrides for the kind of
\* node, or the default traversal of its children.  It is defined after the methods.
RECURSIVE visit_with(_, _), visit_all(_, _, _)
RECURSIVE visit_pat_props(_, _, _)

\* visit_with on every node of a list, in order.
visit_all(c, nodes, i) ==
  IF i > Len(nodes) THEN c ELSE visit_all(visit_with(c, nodes[i]), nodes, i + 1)

visit_this_expr(c) ==
  IF c.in_module_this
  THEN [c EXCEPT !.has_cjs_exports = TRUE, !.static_cjs_exports = FALSE]
  ELSE c

\* visit_member_expr recording a non-static access only of an identifier that is
\* already in the imports table.
visit_member_expr_of_known_imports(c, node) ==
  IF match_member_expr(node, c.decls)
  THEN [c EXCEPT !.static_cjs_exports = FALSE, !.has_cjs_exports = TRUE]
  ELSE
    LET is_static == StaticKey(node).some
        cjs == [c EXCEPT !.has_cjs_exports = TRUE,
                         !.static_cjs_exports = IF ~is_static THEN FALSE ELSE @]
    IN CASE node.obj.t = "Member" ->
              IF match_member_expr(node.obj, c.decls) THEN cjs ELSE c
         [] node.obj.t = "Ident" ->
              LET c1 == IF node.obj.sym = "exports" /\ id(node.obj) \notin c.decls
                        THEN cjs ELSE c
              IN IF ~is_static /\ node.obj.sym # "import" /\ id(node.obj) \in DOMAIN c.imports
                 THEN [c1 EXCEPT !.non_static_access = @ \cup {id(node.obj)}]
                 ELSE c1
         [] node.obj.t = "This" -> IF c.in_module_this THEN cjs ELSE c
         [] OTHER -> visit_with(visit_with(c, node.obj), node.prop)

\* visit_member_expr assigning static_cjs_exports from the member at hand
\* instead of only clearing it.
visit_member_expr_assigning_static(c, node) ==
  IF match_member_expr(node, c.decls)
  THEN [c EXCEPT !.static_cjs_exports = FALSE, !.has_cjs_exports = TRUE]
  ELSE
    LET is_static == StaticKey(node).some
        cjs == [c EXCEPT !.has_cjs_exports = TRUE,
                         !.static_cjs_exports = is_static]
    IN CASE node.obj.t = "Member" ->
              IF match_member_expr(node.obj, c.decls) THEN cjs ELSE c
         [] node.obj.t = "Ident" ->
              LET c1 == IF node.obj.sym = "exports" /\ id(node.obj) \notin c.decls
                        THEN cjs ELSE c
              IN IF ~is_static /\ node.obj.sym # "import"
                 THEN [c1 EXCEPT !.non_static_access = @ \cup {id(node.obj)}]
                 ELSE c1
         [] node.obj.t = "This" -> IF c.in_module_this THEN cjs ELSE c
         [] OTHER -> visit_with(visit_with(c, node.obj), node.prop)

visit_member_expr(c, node) ==
  IF match_member_expr(node, c.decls)
  THEN [c EXCEPT !.static_cjs_exports = FALSE, !.has_cjs_exports = TRUE]
  ELSE
    LET is_static == StaticKey(node).some
        cjs == [c EXCEPT !.has_cjs_exports = TRUE,
                         !.static_cjs_exports = IF ~is_static THEN FALSE ELSE @]
    IN CASE node.obj.t = "Member" ->
              IF match_member_expr(node.obj, c.decls) THEN cjs ELSE c
         [] node.obj.t = "Ident" ->
              LET c1 == IF node.obj.sym = "exports" /\ id(node.obj) \notin c.decls
                        THEN cjs ELSE c
              IN IF ~is_static /\ node.obj.sym # "import"
                 THEN [c1 EXCEPT !.non_static_access = @ \cup {id(node.obj)}]
                 ELSE c1
         [] node.obj.t = "This" -> IF c.in_module_this THEN cjs ELSE c
         [] OTHER -> visit_with(visit_with(c, node.obj), node.prop)

\* visit_assign_expr that wraps on a reassigned `exports` without touching the
\* CJS flags.
visit_assign_expr_wrap_only(c, node) ==
  LET c1 == visit_with(visit_with(c, node.left), node.right) IN
    IF has_binding_identifier(node.left, "exports", c.decls)
    THEN [c1 EXCEPT !.should_wrap = TRUE, !.wrap_cause = @ \cup {"exports"}]
    ELSE c1

visit_assign_expr(c, node) ==
  LET c1 == visit_with(visit_with(c, node.left), node.right) IN
    IF has_binding_identifier(node.left, "exports", c.decls)
    THEN [c1 EXCEPT !.static_cjs_exports = FALSE,
                    !.has_cjs_exports = TRUE,
                    !.should_wrap = TRUE,
                    !.wrap_cause = @ \cup {"exports"}]
    ELSE c1

\* visit_fn!
visit_fn(c, node) ==
  LET c1 == [c EXCEPT !.in_module_this = FALSE, !.in_function = TRUE]
      c2 == IF node.t = "Function"
            THEN visit_all(visit_all(c1, node.params, 1), node.body, 1)
            ELSE visit_all(c1, node.methods, 1)
  IN [c2 EXCEPT !.in_module_this = c.in_module_this, !.in_function = c.in_function]

visit_function(c, node) == visit_fn(c, node)

visit_class(c, node) == visit_fn(c, node)

visit_arrow_expr(c, node) ==
  LET c1 == [c EXCEPT !.in_function = TRUE]
      c2 == visit_with(visit_all(c1, node.params, 1), node.body)
  IN [c2 EXCEPT !.in_function = c.in_function]

visit_binding_ident(c, node) ==
  IF c.in_export_decl
  THEN [c EXCEPT !.exports = Insert(@, id(node.id), node.id.sym)]
  ELSE c

visit_assign_pat_prop(c, node) ==
  IF c.in_export_decl
  THEN [c EXCEPT !.exports = Insert(@, id(node.key), node.key.sym)]
  ELSE c

visit_return_stmt(c, node) ==
  LET c1 == IF ~c.in_function
            THEN [c EXCEPT !.should_wrap = TRUE, !.wrap_cause = @ \cup {"return"}]
            ELSE c
  IN visit_with(c1, node.arg)

visit_var_declarator(c, node) ==
  LET children == visit_with(visit_with(c, node.name), node.init)
  IN IF node.init.t = "None" THEN children
     ELSE IF match_require(node.init, c.decls).some
     THEN add_pat_imports(c, node.name, match_require(node.init, c.decls).v, FALSE)
     ELSE IF node.init.t = "Member" /\ match_require(node.init.obj, c.decls).some
     THEN
       LET member == node.init
           key == IF StaticKey(member).some
                  THEN (IF member.prop.t = "Ident" THEN member.prop ELSE Str(member.prop.value))
                  ELSE Computed(member.obj)
       IN add_pat_imports(c, PatObject(<<KeyValuePatProp(key, node.name)>>),
                          match_require(member.obj, c.decls).v, FALSE)
     ELSE IF node.init.t = "Await" /\ match_import(node.init.arg).some
     THEN add_pat_imports(c, node.name, match_import(node.init.arg).v, TRUE)
     ELSE children

visit_call_expr(c, node) ==
  LET c1 == IF match_require(node, c.decls).some
            THEN [c EXCEPT !.wrapped_requires = @ \cup {match_require(node, c.decls).v}]
            ELSE c
      c2 == IF match_import(node).some
            THEN [c1 EXCEPT !.non_static_requires = @ \cup {match_import(node).v},
                            !.wrapped_requires = @ \cup {match_import(node).v}]
            ELSE c1
      c3 == IF /\ node.callee.t = "Ident"
               /\ node.callee.sym = "eval"
               /\ id(node.callee) \notin c.decls
            THEN [c2 EXCEPT !.should_wrap = TRUE, !.wrap_cause = @ \cup {"eval"}]
            ELSE c2
      is_then == /\ node.callee.t = "Member"
                 /\ match_import(node.callee.obj).some
                 /\ StaticKey(node.callee).some
                 /\ StaticKey(node.callee).v = "then"
                 /\ Len(node.args) > 0
  IN IF is_then
     THEN
       LET source == match_import(node.callee.obj).v
           expr == node.args[1]
           param == IF expr.t = "Fn" /\ Len(expr.function.params) > 0
                    THEN expr.function.params[1]
                    ELSE IF expr.t = "Arrow" /\ Len(expr.params) > 0
                    THEN expr.params[1]
                    ELSE None
           c4 == IF param.t # "None"
                 THEN add_pat_imports(c3, param, source, TRUE)
                 ELSE [c3 EXCEPT !.non_static_requires = @ \cup {source},
                                 !.wrapped_requires = @ \cup {source}]
       IN visit_with(c4, expr)
     ELSE visit_all(visit_with(c3, node.callee), node.args, 1)

visit_expr(c, node) ==
  CASE node.t = "Ident" ->
         LET is_module == node.sym = "module"
             is_exports == node.sym = "exports"
             c1 == IF (is_module \/ is_exports) /\ id(node) \notin c.decls
                   THEN [c EXCEPT !.has_cjs_exports = TRUE,
                                  !.static_cjs_exports = FALSE,
                                  !.should_wrap = IF is_module THEN TRUE ELSE @,
                                  !.wrap_cause = IF is_module THEN @ \cup {"module"} ELSE @]
                   ELSE c
         IN IF node.sym # "import"
            THEN [c1 EXCEPT !.non_static_access = @ \cup {id(node)}]
            ELSE c1
    [] node.t = "Member" -> visit_member_expr(c, node)
    [] node.t = "Call" -> visit_call_expr(c, node)
    [] node.t = "Assign" -> visit_assign_expr(c, node)
    [] node.t = "This" -> visit_this_expr(c)
    [] node.t \in {"Unary", "Await"} -> visit_with(c, node.arg)
    [] node.t = "Seq" -> visit_all(c, node.exprs, 1)
    [] node.t = "Bin" -> visit_with(visit_with(c, node.left), node.right)
    [] node.t = "Fn" -> visit_with(c, node.function)
    [] node.t = "Arrow" -> visit_arrow_expr(c, node)

\* The default traversal of the properties of an object pattern.
visit_pat_props(c, props, i) ==
  IF i > Len(props) THEN c
  ELSE
    LET prop == props[i]
        c1 == CASE prop.t = "KeyValue" ->
                     visit_with(IF prop.key.t = "Computed" THEN visit_with(c, prop.key.expr) ELSE c,
                                prop.value)
                [] prop.t = "AssignProp" -> visit_assign_pat_prop(c, prop)
                [] prop.t = "Rest" -> visit_with(c, prop.arg)
    IN visit_pat_props(c1, props, i + 1)

\* The default traversal of a pattern.
visit_pat(c, node) ==
  CASE node.t = "PatIdent" -> visit_binding_ident(c, node)
    [] node.t = "PatObject" -> visit_pat_props(c, node.props, 1)
    [] node.t = "PatArray" -> visit_all(c, node.elems, 1)
    [] node.t = "PatExpr" -> visit_with(c, node.expr)
    [] node.t = "PatAssign" -> visit_with(visit_with(c, node.left), node.right)

\* The default traversal of a statement.
visit_stmt(c, node) ==
  CASE node.t = "ExprStmt" -> visit_with(c, node.expr)
    [] node.t = "VarDecl" -> visit_all(c, node.decls, 1)
    [] node.t = "FnDecl" -> visit_with(c, node.function)
    [] node.t = "ClassDecl" -> visit_with(c, node.class)
    [] node.t = "Return" -> visit_return_stmt(c, node)
    [] node.t = "If" -> visit_with(visit_with(c, node.test), node.cons)

RECURSIVE visit_import_specifiers(_, _, _, _), visit_export_specifiers(_, _, _)
RECURSIVE visit_export_var_declarators(_, _, _)

visit_import_specifiers(c, specifiers, i, src) ==
  IF i > Len(specifiers) THEN c
  ELSE
    LET spec == specifiers[i]
        imported == CASE spec.kind = "Named" -> spec.imported
                      [] spec.kind = "Default" -> "default"
                      [] spec.kind = "Namespace" -> "*"
        c1 == [c EXCEPT !.imports =
                 Insert(@, id(spec.local), ImportEntry(src, imported, FALSE, spec.pos))]
    IN visit_import_specifiers(c1, specifiers, i + 1, src)

visit_import_decl(c, node) == visit_import_specifiers(c, node.specifiers, 1, node.src)

visit_export_specifiers(c, specifiers, i) ==
  IF i > Len(specifiers) THEN c
  ELSE
    LET spec == specifiers[i]
        exported == CASE spec.kind = "Named" -> spec.exported
                      [] spec.kind = "Default" -> "default"
                      [] spec.kind = "Namespace" -> "*"
        c1 == [c EXCEPT !.exports = EntryOrInsert(@, id(spec.orig), exported)]
    IN visit_export_specifiers(c1, specifiers, i + 1)

\* visit_named_export with its test of the source inverted.
visit_named_export_of_sources(c, node) ==
  IF node.src.t = "None" THEN c ELSE visit_export_specifiers(c, node.specifiers, 1)

visit_named_export(c, node) ==
  IF node.src.t # "None" THEN c ELSE visit_export_specifiers(c, node.specifiers, 1)

visit_export_var_declarators(c, decls, i) ==
  IF i > Len(decls) THEN c
  ELSE
    LET c1 == visit_with([c EXCEPT !.in_export_decl = TRUE], decls[i].name)
        c2 == [c1 EXCEPT !.in_export_decl = FALSE]
        c3 == visit_with(c2, decls[i].init)
    IN visit_export_var_declarators(c3, decls, i + 1)

visit_export_decl(c, node) ==
  LET decl == node.decl
      c1 == CASE decl.t \in {"ClassDecl", "FnDecl"} ->
                   [c EXCEPT !.exports = Insert(@, id(decl.ident), decl.ident.sym)]
              [] decl.t = "VarDecl" -> visit_export_var_declarators(c, decl.decls, 1)
              [] OTHER -> c
  IN visit_with(c1, decl)

visit_export_default_decl(c, node) ==
  LET c1 == IF node.ident.t # "None"
            THEN [c EXCEPT !.exports = Insert(@, id(node.ident), "default")]
            ELSE c
  IN visit_with(c1, node.body)

visit_module_decl(c, node) ==
  CASE node.t = "Import" -> visit_import_decl(c, node)
    [] node.t = "ExportNamed" -> visit_named_export(c, node)
    [] node.t = "ExportDefaultExpr" -> visit_with(c, node.expr)
    [] node.t = "ExportDefaultDecl" -> visit_export_default_decl(c, node)
    [] node.t = "ExportDecl" -> visit_export_decl(c, node)
    [] OTHER -> c

IsModuleDecl(node) ==
  node.t \in {"Import", "ExportNamed", "ExportAll", "ExportDefaultExpr",
              "ExportDefaultDecl", "ExportDecl"}

visit_with(c, node) ==
  CASE node.t \in {"Ident", "Member", "Call", "Assign", "This", "Unary", "Await", "Seq",
                   "Bin", "Fn", "Arrow"} -> visit_expr(c, node)
    [] node.t \in {"PatIdent", "PatObject", "PatArray", "PatExpr", "PatAssign"} ->
         visit_pat(c, node)
    [] node.t = "VarDeclarator" -> visit_var_declarator(c, node)
    [] node.t = "Function" -> visit_function(c, node)
    [] node.t = "Class" -> visit_class(c, node)
    [] node.t \in {"ExprStmt", "VarDecl", "FnDecl", "ClassDecl", "Return", "If"} ->
         visit_stmt(c, node)
    [] IsModuleDecl(node) -> visit_module_decl(c, node)
    [] OTHER -> c

visit_module_item(c, node) ==
  LET nested(c0) ==
        LET c1 == visit_with([c0 EXCEPT !.in_top_level = FALSE], node)
        IN [c1 EXCEPT !.in_top_level = TRUE]
  IN IF IsModuleDecl(node) THEN nested([c EXCEPT !.is_esm = TRUE])
     ELSE IF node.t = "VarDecl" THEN visit_all(c, node.decls, 1)
     ELSE IF node.t = "ExprStmt" /\ match_require(node.expr, c.decls).some THEN c
     ELSE nested(c)

\* Collect::visit_module, before the first module item and after the last.
visit_module_enter(c) ==
  [c EXCEPT !.in_module_this = TRUE, !.in_top_level = TRUE, !.in_function = FALSE]

visit_module_exit(c) == [c EXCEPT !.in_module_this = FALSE]

\* ------------------------------------------------------------------- Hoist

\* Hoist::new.  panicked records that the fold reached
\* unreachable!("Unexpected non-static CJS export").
HoistNew(collect) ==
  [ collect |-> collect,
    requires_in_stmt |-> << >>,
    export_decls |-> {},
    imported_symbols |-> EmptyMap,
    exported_symbols |-> EmptyMap,
    re_exports |-> << >>,
    self_references |-> {},
    dynamic_imports |-> EmptyMap,
    in_function_scope |-> FALSE,
    panicked |-> FALSE ]

\* The pair a fold method returns: the pass's state and the node it produced.
Folded(h, n) == [h |-> h, n |-> n]

add_require(h, source) ==
  [h EXCEPT !.requires_in_stmt = Append(@, BareImport(source))]

ImportName(source, local) ==
  IF local = "*"
  THEN "$" \o module_id \o "$import$" \o hash(source)
  ELSE "$" \o module_id \o "$import$" \o hash(source) \o "$" \o hash(local)

ImportAsyncName(source, local) ==
  IF local = "*"
  THEN "$" \o module_id \o "$importAsync$" \o hash(source)
  ELSE "$" \o module_id \o "$importAsync$" \o hash(source) \o "$" \o hash(local)

\* The export name schema with the module id left out.
ExportNameWithoutModule(exported) ==
  IF exported = "*" THEN "$exports" ELSE "$export$" \o exported

ExportName(exported) ==
  IF exported = "*"
  THEN "$" \o module_id \o "$exports"
  ELSE "$" \o module_id \o "$export$" \o exported

ImportedSymbol(source, local, loc) == [source |-> source, local |-> local, loc |-> loc]
ExportedSymbol(name, loc) == [name |-> name, loc |-> loc]

\* Ident::new(new_name, span) keeps the syntax context of the span it is given.
get_import_ident(h, pos, ctxt, source, local, loc) ==
  LET new_name == ImportName(source, local) IN
    Folded([h EXCEPT !.imported_symbols =
              Insert(@, new_name, ImportedSymbol(source, local, loc))],
           Ident(new_name, pos, ctxt))

get_export_ident(h, pos, exported) ==
  LET new_name == ExportName(exported) IN
    Folded([h EXCEPT !.exported_symbols =
              EntryOrInsert(@, exported, ExportedSymbol(new_name, pos))],
           Ident(new_name, pos, CtxtEmpty))

\* self_references.insert given the fresh name instead of the exported name.
self_reference_fresh_name(h, key) ==
  [h EXCEPT !.self_references = @ \cup {ExportName(key)}]

self_reference(h, key) == [h EXCEPT !.self_references = @ \cup {key}]

fold_ident(h, node) ==
  LET c == h.collect
      imported == id(node) \in DOMAIN c.imports
      entry == c.imports[id(node)]
      static == imported /\ entry.source \notin c.non_static_requires
      h1 == IF static /\ entry.is_async
            THEN IF entry.local # "*"
                 THEN [h EXCEPT !.imported_symbols =
                         Insert(@, ImportAsyncName(entry.source, entry.local),
                                ImportedSymbol(entry.source, entry.local, entry.loc))]
                 ELSE IF id(node) \in c.non_static_access
                 THEN [h EXCEPT !.imported_symbols =
                         Insert(@, ImportAsyncName(entry.source, "*"),
                                ImportedSymbol(entry.source, "*", entry.loc))]
                 ELSE h
            ELSE h
  IN IF static /\ ~entry.is_async
     THEN get_import_ident(h, node.pos, node.ctxt, entry.source, entry.local, entry.loc)
     ELSE IF id(node) \in DOMAIN c.exports
     THEN IF c.should_wrap
          THEN Folded([h1 EXCEPT !.exported_symbols =
                         EntryOrInsert(@, c.exports[id(node)], ExportedSymbol(node.sym, node.pos))],
                      node)
          ELSE get_export_ident(h1, node.pos, c.exports[id(node)])
     ELSE IF node.sym = "exports" /\ id(node) \notin c.decls /\ ~c.should_wrap
     THEN get_export_ident(self_reference(h1, "*"), node.pos, "*")
     ELSE IF node.sym = "global" /\ id(node) \notin c.decls
     THEN Folded(h1, Ident("$parcel$global", node.pos, node.ctxt))
     ELSE IF node.ctxt = CtxtGlobal /\ id(node) \in c.decls /\ ~c.should_wrap
     THEN Folded(h1, Ident("$" \o module_id \o "$var$" \o node.sym, node.pos, node.ctxt))
     ELSE Folded(h1, node)

\* node.fold_with(self): the fold method Hoist overrides for the kind of node,
\* or the default fold of its children.  It is defined after the methods.
RECURSIVE fold_with(_, _), fold_all(_, _, _, _), fold_seq_exprs(_, _, _, _)

\* fold_with on every node of a list, in order.
fold_all(h, nodes, i, acc) ==
  IF i > Len(nodes) THEN Folded(h, acc)
  ELSE LET r == fold_with(h, nodes[i]) IN fold_all(r.h, nodes, i + 1, Append(acc, r.n))

\* The loop of fold_seq_expr without its test of the last position.
fold_seq_exprs_wrapping_last(h, exprs, i, acc) ==
  IF i > Len(exprs) THEN Folded(h, acc)
  ELSE
    LET r == fold_with(h, exprs[i])
        n == IF match_require(exprs[i], h.collect.decls).some
             THEN Unary("!", r.n, DUMMY_POS)
             ELSE r.n
    IN fold_seq_exprs(r.h, exprs, i + 1, Append(acc, n))

fold_seq_exprs(h, exprs, i, acc) ==
  IF i > Len(exprs) THEN Folded(h, acc)
  ELSE
    LET r == fold_with(h, exprs[i])
        n == IF i # Len(exprs) /\ match_require(exprs[i], h.collect.decls).some
             THEN Unary("!", r.n, DUMMY_POS)
             ELSE r.n
    IN fold_seq_exprs(r.h, exprs, i + 1, Append(acc, n))

fold_seq_expr(h, node) ==
  LET r == fold_seq_exprs(h, node.exprs, 1, << >>) IN Folded(r.h, SeqExpr(r.n))

fold_arrow_expr(h, node) ==
  LET rp == fold_all(h, node.params, 1, << >>)
      rb == fold_with(rp.h, node.body)
  IN Folded(rb.h, Arrow(rp.n, rb.n))

\* fold_assign_expr deciding by the key of the assignment itself, not by
\* static_cjs_exports, whether it writes $M$export$K.
fold_assign_expr_by_own_key(h, node) ==
  LET c == h.collect
      children ==
        LET rl == fold_with(h, node.left)
            rr == fold_with(rl.h, node.right)
        IN Folded(rr.h, Assign(rl.n, rr.n))
  IN IF c.should_wrap THEN children
     ELSE IF node.left.t # "PatExpr" THEN children
     ELSE IF node.left.expr.t # "Member" THEN children
     ELSE
       LET member == node.left.expr
           is_cjs_exports ==
             CASE member.obj.t = "Member" -> match_member_expr(member.obj, c.decls)
               [] member.obj.t = "Ident" ->
                    member.obj.sym = "exports" /\ id(member.obj) \notin c.decls
               [] OTHER -> FALSE
       IN IF match_member_expr(member, c.decls)
          THEN LET ri == get_export_ident(h, member.pos, "*")
                   rr == fold_with(ri.h, node.right)
               IN Folded(rr.h, Assign(PatIdent(ri.n), rr.n))
          ELSE IF ~is_cjs_exports THEN children
          ELSE
            LET key == IF StaticKey(member).some THEN StaticKey(member).v ELSE "*"
                ri == get_export_ident(h, member.pos, key)
            IN IF StaticKey(member).some
               THEN LET h1 == [ri.h EXCEPT !.export_decls = @ \cup {ri.n.sym}]
                        rr == fold_with(h1, node.right)
                    IN Folded(rr.h, Assign(PatIdent(ri.n), rr.n))
               ELSE LET rp == fold_with(ri.h, member.prop)
                        rr == fold_with(rp.h, node.right)
                    IN Folded(rr.h,
                              Assign(PatExpr([member EXCEPT !.obj = ri.n, !.prop = rp.n]), rr.n))

fold_assign_expr(h, node) ==
  LET c == h.collect
      children ==
        LET rl == fold_with(h, node.left)
            rr == fold_with(rl.h, node.right)
        IN Folded(rr.h, Assign(rl.n, rr.n))
  IN IF c.should_wrap THEN children
     ELSE IF node.left.t # "PatExpr" THEN children
     ELSE IF node.left.expr.t # "Member" THEN children
     ELSE
       LET member == node.left.expr
           is_cjs_exports ==
             CASE member.obj.t = "Member" -> match_member_expr(member.obj, c.decls)
               [] member.obj.t = "Ident" ->
                    member.obj.sym = "exports" /\ id(member.obj) \notin c.decls
               [] OTHER -> FALSE
       IN IF match_member_expr(member, c.decls)
          THEN LET ri == get_export_ident(h, member.pos, "*")
                   rr == fold_with(ri.h, node.right)
               IN Folded(rr.h, Assign(PatIdent(ri.n), rr.n))
          ELSE IF ~is_cjs_exports THEN children
          ELSE IF c.static_cjs_exports /\ ~StaticKey(member).some
          THEN Folded([h EXCEPT !.panicked = TRUE], node)
          ELSE
            LET key == IF c.static_cjs_exports THEN StaticKey(member).v ELSE "*"
                ri == get_export_ident(h, member.pos, key)
            IN IF c.static_cjs_exports
               THEN LET h1 == [ri.h EXCEPT !.export_decls = @ \cup {ri.n.sym}]
                        rr == fold_with(h1, node.right)
                    IN Folded(rr.h, Assign(PatIdent(ri.n), rr.n))
               ELSE LET rp == fold_with(ri.h, member.prop)
                        rr == fold_with(rp.h, node.right)
                    IN Folded(rr.h,
                              Assign(PatExpr([member EXCEPT !.obj = ri.n, !.prop = rp.n]), rr.n))

fold_function(h, node) ==
  LET h1 == [h EXCEPT !.in_function_scope = TRUE]
      rp == fold_all(h1, node.params, 1, << >>)
      rb == fold_all(rp.h, node.body, 1, << >>)
  IN Folded([rb.h EXCEPT !.in_function_scope = h.in_function_scope], Function(rp.n, rb.n))

fold_class(h, node) ==
  LET h1 == [h EXCEPT !.in_function_scope = TRUE]
      r == fold_all(h1, node.methods, 1, << >>)
  IN Folded([r.h EXCEPT !.in_function_scope = h.in_function_scope], Class(r.n))

\* node.fold_children_with(self) on a member, call, unary, await, binary or
\* function expression.
fold_children_with(h, node) ==
  CASE node.t = "Member" ->
         LET ro == fold_with(h, node.obj)
             rp == fold_with(ro.h, node.prop)
         IN Folded(rp.h, [node EXCEPT !.obj = ro.n, !.prop = rp.n])
    [] node.t = "Call" ->
         LET rc == fold_with(h, node.callee)
             ra == fold_all(rc.h, node.args, 1, << >>)
         IN Folded(ra.h, [node EXCEPT !.callee = rc.n, !.args = ra.n])
    [] node.t \in {"Unary", "Await"} ->
         LET r == fold_with(h, node.arg) IN Folded(r.h, [node EXCEPT !.arg = r.n])
    [] node.t = "Bin" ->
         LET rl == fold_with(h, node.left)
             rr == fold_with(rl.h, node.right)
         IN Folded(rr.h, [node EXCEPT !.left = rl.n, !.right = rr.n])
    [] node.t = "Fn" ->
         LET r == fold_with(h, node.function) IN Folded(r.h, FnExpr(r.n))
    [] OTHER -> Folded(h, node)

\* node.fold_children_with(self) on an expression: Fold calls the method of
\* the kind of expression.
fold_expr_children(h, node) ==
  CASE node.t = "Ident" -> fold_ident(h, node)
    [] node.t = "Assign" -> fold_assign_expr(h, node)
    [] node.t = "Seq" -> fold_seq_expr(h, node)
    [] node.t = "Arrow" -> fold_arrow_expr(h, node)
    [] OTHER -> fold_children_with(h, node)

\* The test of fold_expr with the non-static accesses of the namespace left out.
static_namespace_despite_access(c, ident) ==
  /\ id(ident) \in DOMAIN c.imports
  /\ c.imports[id(ident)].local = "*"
  /\ c.imports[id(ident)].source \notin c.non_static_requires

\* Whether fold_expr may replace the member accesses of an identifier by
\* per-symbol imports: it is bound to a namespace that Collect saw no
\* non-static access of, and whose source has no non-static require.
static_namespace(c, ident) ==
  /\ id(ident) \in DOMAIN c.imports
  /\ c.imports[id(ident)].local = "*"
  /\ id(ident) \notin c.non_static_access
  /\ c.imports[id(ident)].source \notin c.non_static_requires

fold_member(h, node) ==
  LET c == h.collect
      key == StaticKey(node).v
      obj == node.obj
      children == fold_children_with(h, node)
      export_key(h0) == get_export_ident(self_reference(h0, key), node.pos, key)
  IN IF ~c.should_wrap /\ match_member_expr(node, c.decls)
     THEN get_export_ident(self_reference(h, "*"), node.pos, "*")
     ELSE IF ~StaticKey(node).some THEN children
     ELSE
       CASE obj.t = "Ident" ->
              LET entry == c.imports[id(obj)]
                  namespace == static_namespace(c, obj)
                  h1 == IF namespace /\ entry.is_async
                        THEN [h EXCEPT !.imported_symbols =
                                Insert(@, ImportAsyncName(entry.source, key),
                                       ImportedSymbol(entry.source, key, node.pos))]
                        ELSE h
              IN IF namespace /\ ~entry.is_async
                 THEN get_import_ident(h, node.pos, CtxtEmpty, entry.source, key, node.pos)
                 ELSE IF /\ obj.sym = "exports"
                         /\ id(obj) \notin c.decls
                         /\ c.static_cjs_exports
                         /\ ~c.should_wrap
                 THEN export_key(h1)
                 ELSE fold_children_with(h1, node)
         [] obj.t = "Call" ->
              IF match_require(obj, c.decls).some
              THEN LET source == match_require(obj, c.decls).v
                   IN get_import_ident(add_require(h, source), node.pos, CtxtEmpty,
                                       source, key, node.pos)
              ELSE children
         [] obj.t = "Member" ->
              IF c.static_cjs_exports /\ ~c.should_wrap /\ match_member_expr(obj, c.decls)
              THEN export_key(h)
              ELSE children
         [] obj.t = "This" ->
              IF /\ c.static_cjs_exports
                 /\ ~c.should_wrap
                 /\ ~h.in_function_scope
                 /\ ~c.is_esm
              THEN export_key(h)
              ELSE children
         [] OTHER -> children

fold_call(h, node) ==
  LET c == h.collect IN
    IF match_require(node, c.decls).some
    THEN LET source == match_require(node, c.decls).v
         IN get_import_ident(add_require(h, source), node.pos, CtxtEmpty, source, "*", node.pos)
    ELSE IF match_import(node).some
    THEN LET source == match_import(node).v
             name == ImportAsyncName(source, "*")
             h1 == add_require(h, source)
             h2 == [h1 EXCEPT !.dynamic_imports = Insert(@, name, source)]
             h3 == IF source \in c.non_static_requires \/ c.should_wrap
                   THEN [h2 EXCEPT !.imported_symbols =
                           Insert(@, name, ImportedSymbol(source, "*", node.pos))]
                   ELSE h2
         IN Folded(h3, Ident(name, node.pos, CtxtEmpty))
    ELSE fold_children_with(h, node)

fold_this(h, node) ==
  LET c == h.collect IN
    IF ~h.in_function_scope /\ c.is_esm
    THEN Folded(h, Ident("undefined", DUMMY_POS, CtxtEmpty))
    ELSE IF ~h.in_function_scope /\ ~c.should_wrap
    THEN get_export_ident(self_reference(h, "*"), node.pos, "*")
    ELSE Folded(h, node)

fold_unary(h, node) ==
  IF /\ node.op = "typeof"
     /\ node.arg.t = "Ident"
     /\ node.arg.sym = "require"
     /\ id(node.arg) \notin h.collect.decls
  THEN Folded(h, Str("function"))
  ELSE fold_children_with(h, node)

fold_expr(h, node) ==
  CASE node.t = "Member" -> fold_member(h, node)
    [] node.t = "Call" -> fold_call(h, node)
    [] node.t = "This" -> fold_this(h, node)
    [] node.t = "Unary" -> fold_unary(h, node)
    [] OTHER -> fold_expr_children(h, node)

fold_object_pat_prop(h, node) ==
  CASE node.t = "AssignProp" /\ ~h.collect.should_wrap ->
         LET rk == fold_with(h, node.key)
             rv == fold_with(rk.h, node.value)
             key == Ident(node.key.sym, DUMMY_POS, CtxtEmpty)
         IN IF node.value.t = "None"
            THEN Folded(rk.h, KeyValuePatProp(key, PatIdent(rk.n)))
            ELSE Folded(rv.h, KeyValuePatProp(key, PatAssign(PatIdent(rk.n), rv.n)))
    [] node.t = "AssignProp" /\ h.collect.should_wrap ->
         LET rk == fold_with(h, node.key)
             rv == fold_with(rk.h, node.value)
         IN IF node.value.t = "None"
            THEN Folded(rk.h, AssignPatProp(rk.n, node.value))
            ELSE Folded(rv.h, AssignPatProp(rk.n, rv.n))
    [] node.t = "KeyValue" ->
         LET rk == CASE node.key.t = "Ident" -> fold_with(h, node.key)
                     [] node.key.t = "Computed" ->
                          (LET r == fold_with(h, node.key.expr) IN Folded(r.h, Computed(r.n)))
                     [] OTHER -> Folded(h, node.key)
             rv == fold_with(rk.h, node.value)
         IN Folded(rv.h, KeyValuePatProp(rk.n, rv.n))
    [] node.t = "Rest" ->
         LET r == fold_with(h, node.arg) IN Folded(r.h, RestPat(r.n))

\* The default fold of a pattern.
fold_pat(h, node) ==
  CASE node.t = "PatIdent" ->
         LET r == fold_with(h, node.id) IN Folded(r.h, PatIdent(r.n))
    [] node.t = "PatObject" ->
         LET r == fold_all(h, node.props, 1, << >>) IN Folded(r.h, PatObject(r.n))
    [] node.t = "PatArray" ->
         LET r == fold_all(h, node.elems, 1, << >>) IN Folded(r.h, PatArray(r.n))
    [] node.t = "PatExpr" ->
         LET r == fold_with(h, node.expr) IN Folded(r.h, PatExpr(r.n))
    [] node.t = "PatAssign" ->
         LET rl == fold_with(h, node.left)
             rr == fold_with(rl.h, node.right)
         IN Folded(rr.h, PatAssign(rl.n, rr.n))

\* The default fold of a declarator.
fold_var_declarator(h, node) ==
  LET rn == fold_with(h, node.name)
      ri == fold_with(rn.h, node.init)
  IN Folded(ri.h, VarDeclarator(rn.n, ri.n))

\* The default fold of a statement.
fold_stmt(h, node) ==
  CASE node.t = "ExprStmt" ->
         LET r == fold_with(h, node.expr) IN Folded(r.h, ExprStmt(r.n))
    [] node.t = "VarDecl" ->
         LET r == fold_all(h, node.decls, 1, << >>)
         IN Folded(r.h, VarDecl(node.kind, r.n))
    [] node.t = "FnDecl" ->
         LET ri == fold_with(h, node.ident)
             rf == fold_with(ri.h, node.function)
         IN Folded(rf.h, FnDecl(ri.n, rf.n))
    [] node.t = "ClassDecl" ->
         LET ri == fold_with(h, node.ident)
             rc == fold_with(ri.h, node.class)
         IN Folded(rc.h, ClassDecl(ri.n, rc.n))
    [] node.t = "Return" ->
         LET r == fold_with(h, node.arg) IN Folded(r.h, ReturnStmt(r.n))
    [] node.t = "If" ->
         LET rt == fold_with(h, node.test)
             rc == fold_with(rt.h, node.cons)
         IN Folded(rc.h, IfStmt(rt.n, rc.n))

fold_with(h, node) ==
  CASE node.t \in {"Ident", "Member", "Call", "Assign", "This", "Unary", "Await", "Seq",
                   "Bin", "Fn", "Arrow"} -> fold_expr(h, node)
    [] node.t \in {"PatIdent", "PatObject", "PatArray", "PatExpr", "PatAssign"} ->
         fold_pat(h, node)
    [] node.t \in {"AssignProp", "KeyValue", "Rest"} -> fold_object_pat_prop(h, node)
    [] node.t = "VarDeclarator" -> fold_var_declarator(h, node)
    [] node.t = "Function" -> fold_function(h, node)
    [] node.t = "Class" -> fold_class(h, node)
    [] node.t \in {"ExprStmt", "VarDecl", "FnDecl", "ClassDecl", "Return", "If"} ->
         fold_stmt(h, node)
    [] OTHER -> Folded(h, node)

\* The locals of fold_module: the folder, hoisted_imports and items.
FoldModuleNew(collect) ==
  [h |-> HoistNew(collect), hoisted_imports |-> << >>, items |-> << >>]

\* if self.requires_in_stmt.len() > 0 { items.append(&mut self.requires_in_stmt); ... }
flush_requires(st) ==
  [st EXCEPT !.items = @ \o st.h.requires_in_stmt, !.h.requires_in_stmt = << >>]

RECURSIVE fold_reexport_specifiers(_, _, _, _), fold_export_specifiers(_, _, _)

\* export { ... } from 'src'
fold_reexport_specifiers(h, specifiers, i, src) ==
  IF i > Len(specifiers) THEN h
  ELSE
    LET spec == specifiers[i]
        entry == CASE spec.kind = "Named" ->
                        [exported |-> spec.exported, source |-> src,
                         local |-> spec.orig.sym, loc |-> spec.pos]
                   [] spec.kind = "Default" ->
                        [exported |-> spec.exported, source |-> src,
                         local |-> "default", loc |-> spec.pos]
                   [] spec.kind = "Namespace" ->
                        [exported |-> spec.exported, source |-> src,
                         local |-> "*", loc |-> spec.pos]
    IN fold_reexport_specifiers([h EXCEPT !.re_exports = Append(@, entry)],
                                specifiers, i + 1, src)

\* export { a as b } without a source
fold_export_specifiers(h, specifiers, i) ==
  IF i > Len(specifiers) THEN h
  ELSE
    LET spec == specifiers[i]
        c == h.collect
        h1 == IF spec.kind # "Named" THEN h
              ELSE IF id(spec.orig) \in DOMAIN c.imports
              THEN [h EXCEPT !.re_exports =
                      Append(@, [exported |-> spec.exported,
                                 source |-> c.imports[id(spec.orig)].source,
                                 local |-> c.imports[id(spec.orig)].local,
                                 loc |-> spec.pos])]
              ELSE IF id(spec.orig) \notin DOMAIN c.exports
              THEN [h EXCEPT !.panicked = TRUE]
              ELSE
                LET orig_exported == c.exports[id(spec.orig)]
                    r == IF c.should_wrap
                         THEN Folded(h, Ident(orig_exported, DUMMY_POS, CtxtEmpty))
                         ELSE get_export_ident(h, DUMMY_POS, orig_exported)
                IN [r.h EXCEPT !.exported_symbols =
                      EntryOrInsert(@, spec.exported, ExportedSymbol(r.n.sym, spec.pos))]
    IN fold_export_specifiers(h1, specifiers, i + 1)

\* The declarator loop of the Decl::Var arm of fold_module.
RECURSIVE fold_module_var(_, _, _, _)

\* if decls.len() > 0 { ...; items.push(ModuleItem::Stmt(Stmt::Decl(Decl::Var(var)))) }
push_decls(st, var, decls) ==
  IF Len(decls) > 0 THEN [st EXCEPT !.items = Append(@, VarDecl(var.kind, decls))] ELSE st

\* Its else branch, `d` being decl.clone().fold_with(self).
fold_module_declarator(st, var, i, decls, d) ==
  LET st1 == [st EXCEPT !.h = d.h]
  IN IF Len(d.h.requires_in_stmt) > 0
     THEN fold_module_var(flush_requires(push_decls(st1, var, decls)), var, i + 1, <<d.n>>)
     ELSE fold_module_var(st1, var, i + 1, Append(decls, d.n))

fold_module_var(st, var, i, decls) ==
  IF i > Len(var.decls) THEN push_decls(st, var, decls)
  ELSE
    LET v == var.decls[i]
        c == st.h.collect
        direct == IF v.init.t = "None" THEN NoMatch ELSE match_require(v.init, c.decls)
        member == IF v.init.t = "Member" THEN match_require(v.init.obj, c.decls) ELSE NoMatch
        source == IF direct.some /\ direct.v \notin c.non_static_requires THEN direct
                  ELSE IF member.some /\ member.v \notin c.non_static_requires THEN member
                  ELSE NoMatch
    IN IF source.some
       THEN fold_module_var(
              [push_decls(st, var, decls) EXCEPT !.items = Append(@, BareImport(source.v))],
              var, i + 1, << >>)
       ELSE fold_module_declarator(st, var, i, decls, fold_with(st.h, v))

\* The end of the ExportDefaultExpr arm, `rx` being export.expr.fold_with(self).
fold_export_default_expr(st, ident, rx) ==
  [flush_requires([st EXCEPT !.h = rx.h]) EXCEPT
     !.items = Append(@, VarDecl("var", <<VarDeclarator(PatIdent(ident), rx.n)>>))]

\* The end of the ExportDefaultDecl arm, `rb` being the folded class or function.
fold_export_default_decl(st, item, ident, rb) ==
  [st EXCEPT !.h = rb.h,
             !.items = Append(@, IF item.kind = "Class" THEN ClassDecl(ident, rb.n)
                                 ELSE FnDecl(ident, rb.n))]

\* items.push(ModuleItem::Stmt(Stmt::Decl(export.decl.fold_with(self))))
fold_export_decl(st, r) == [st EXCEPT !.h = r.h, !.items = Append(@, r.n)]

\* The end of the arm of the other statements, `r` being stmt.fold_with(self).
fold_module_stmt(st, r) ==
  [flush_requires([st EXCEPT !.h = r.h]) EXCEPT !.items = Append(@, r.n)]

\* One iteration of `for item in &node.body` of fold_module.
fold_module_item(st, item) ==
  LET h == st.h
      hoist_import(src) == [st EXCEPT !.hoisted_imports = Append(@, BareImport(src))]
  IN CASE item.t = "Import" -> hoist_import(item.src)
       [] item.t = "ExportNamed" ->
            IF item.src.t # "None"
            THEN [hoist_import(item.src.value) EXCEPT
                    !.h = fold_reexport_specifiers(h, item.specifiers, 1, item.src.value)]
            ELSE [st EXCEPT !.h = fold_export_specifiers(h, item.specifiers, 1)]
       [] item.t = "ExportAll" ->
            [hoist_import(item.src) EXCEPT
               !.h.re_exports = Append(@, [exported |-> "*", source |-> item.src,
                                           local |-> "*", loc |-> item.pos])]
       [] item.t = "ExportDefaultExpr" ->
            LET ri == get_export_ident(h, item.pos, "default")
            IN fold_export_default_expr(st, ri.n, fold_with(ri.h, item.expr))
       [] item.t = "ExportDefaultDecl" ->
            LET ri == get_export_ident(h, DUMMY_POS, "default")
            IN fold_export_default_decl(st, item, ri.n, fold_with(ri.h, item.body))
       [] item.t = "ExportDecl" ->
            fold_export_decl(st, fold_with(h, item.decl))
       [] item.t = "VarDecl" -> fold_module_var(st, item, 1, << >>)
       [] OTHER -> fold_module_stmt(st, fold_with(h, item))

\* `var $M$export$K;` for one name of export_decls.
ExportVarDecl(name) ==
  VarDecl("var", <<VarDeclarator(PatIdent(Ident(name, DUMMY_POS, CtxtEmpty)), None)>>)

\* fold_module's tail with the declarations of export_decls put after the items.
fold_module_finish_decls_last(st, order) ==
  st.hoisted_imports \o st.items \o [i \in 1..Len(order) |-> ExportVarDecl(order[i])]

\* The tail of fold_module: `for name in &self.export_decls` visits the HashSet
\* in the order `order`, then items.splice(0..0, hoisted_imports).
fold_module_finish(st, order) ==
  st.hoisted_imports \o [i \in 1..Len(order) |-> ExportVarDecl(order[i])] \o st.items

\* Hoist::get_result
get_result(h) ==
  [ imported_symbols |-> h.imported_symbols,
    exported_symbols |-> h.exported_symbols,
    re_exports |-> h.re_exports,
    self_references |-> h.self_references,
    dynamic_imports |-> h.dynamic_imports,
    wrapped_requires |-> h.collect.wrapped_requires,
    static_cjs_exports |-> h.collect.static_cjs_exports,
    has_cjs_exports |-> h.collect.has_cjs_exports,
    should_wrap |-> h.collect.should_wrap ]

\* The orders in which a HashSet of names can be iterated.
Orders(S) == {o \in [1..Cardinality(S) -> S] : \A i, j \in DOMAIN o : o[i] = o[j] => i = j}

\* ------------------------------------------------------------ input modules

\* The children of a node, in document order.
Children(node) ==
  CASE node.t = "Member" -> <<node.obj, node.prop>>
    [] node.t = "Call" -> <<node.callee>> \o node.args
    [] node.t \in {"Assign", "Bin", "PatAssign"} -> <<node.left, node.right>>
    [] node.t \in {"Unary", "Await", "Return", "Rest"} -> <<node.arg>>
    [] node.t = "Seq" -> node.exprs
    [] node.t = "Function" -> node.params \o node.body
    [] node.t = "Fn" -> <<node.function>>
    [] node.t = "Arrow" -> node.params \o <<node.body>>
    [] node.t = "Class" -> node.methods
    [] node.t = "PatIdent" -> <<node.id>>
    [] node.t = "PatObject" -> node.props
    [] node.t = "PatArray" -> node.elems
    [] node.t \in {"PatExpr", "Computed", "ExprStmt", "ExportDefaultExpr"} -> <<node.expr>>
    [] node.t \in {"KeyValue", "AssignProp"} -> <<node.key, node.value>>
    [] node.t = "VarDeclarator" -> <<node.name, node.init>>
    [] node.t = "VarDecl" -> node.decls
    [] node.t = "FnDecl" -> <<node.ident, node.function>>
    [] node.t = "ClassDecl" -> <<node.ident, node.class>>
    [] node.t = "If" -> <<node.test, node.cons>>
    [] node.t \in {"Import", "ExportNamed"} -> node.specifiers
    [] node.t = "ImportSpecifier" -> <<node.local>>
    [] node.t = "ExportSpecifier" -> <<node.orig>>
    [] node.t = "ExportDefaultDecl" -> <<node.ident, node.body>>
    [] node.t = "ExportDecl" -> <<node.decl>>
    [] OTHER -> << >>

\* collect_decls: the identity of every binding the module declares, in any scope.
RECURSIVE collect_decls(_), collect_decls_seq(_)
collect_decls(node) ==
  LET own == CASE node.t = "PatIdent" -> {id(node.id)}
               [] node.t = "AssignProp" -> {id(node.key)}
               [] node.t \in {"FnDecl", "ClassDecl"} -> {id(node.ident)}
               [] node.t = "ImportSpecifier" -> {id(node.local)}
               [] node.t = "ExportDefaultDecl" ->
                    IF node.ident.t = "None" THEN {} ELSE {id(node.ident)}
               [] OTHER -> {}
  IN IF node.t = "Assign"
     THEN (IF node.left.t = "PatExpr" THEN collect_decls(node.left) ELSE {})
          \cup collect_decls(node.right)
     ELSE own \cup collect_decls_seq(Children(node))

collect_decls_seq(nodes) ==
  UNION {collect_decls(nodes[i]) : i \in 1..Len(nodes)}

\* Identifier shorthands of the catalogue: a free reference, a reference to a
\* top-level binding, a reference to a binding of a nested scope, a property name.
Free(sym, pos) == Ident(sym, pos, CtxtEmpty)
Top(sym, pos) == Ident(sym, pos, CtxtGlobal)
Local(sym, pos) == Ident(sym, pos, CtxtFn)
Prop(sym, pos) == Ident(sym, pos, CtxtEmpty)

Require(source, pos) == Call(Free("require", pos), <<Str(source)>>, pos)
DynImport(source, pos) == Call(Free("import", pos), <<Str(source)>>, pos)
Log(arg, pos) == ExprStmt(Call(Free("log", pos), <<arg>>, pos))
Dot(obj, key, pos) == Member(obj, Prop(key, pos + 1), FALSE, pos)
Index(obj, key, pos) == Member(obj, Free(key, pos + 1), TRUE, pos)
SetTo(target, value) == ExprStmt(Assign(PatExpr(target), value))
Var1(kind, name, init) == VarDecl(kind, <<VarDeclarator(PatIdent(name), init)>>)

\* The module items the model draws modules from; b is the position of the
\* item in the source text.
Catalogue(b) ==
  << \* import {foo as x} from 'other';
     ImportDecl(<<ImportSpecifier("Named", Top("x", b + 1), "foo", b + 1)>>, "other"),
     \* import * as ns from 'other';
     ImportDecl(<<ImportSpecifier("Namespace", Top("ns", b + 1), "*", b + 1)>>, "other"),
     \* import {bar as y} from 'other';
     ImportDecl(<<ImportSpecifier("Named", Top("y", b + 1), "bar", b + 1)>>, "other"),
     \* export {foo} from 'other';
     NamedExport(<<ExportSpecifier("Named", Free("foo", b + 1), "foo", b + 1)>>, Str("other")),
     \* export * from 'other';
     ExportAll("other", b + 1),
     \* export {x as y, x as z};
     NamedExport(<<ExportSpecifier("Named", Top("x", b + 1), "y", b + 1),
                   ExportSpecifier("Named", Top("x", b + 3), "z", b + 3)>>, None),
     \* export {v};
     NamedExport(<<ExportSpecifier("Named", Top("v", b + 1), "v", b + 1)>>, None),
     \* export default require('a');
     ExportDefaultExpr(Require("a", b + 2), b + 1),
     \* export default function X() { return require('b'); }
     ExportDefaultDecl("Fn", Top("X", b + 1),
                       Function(<< >>, <<ReturnStmt(Require("b", b + 2))>>)),
     \* export function f() { return import('other'); }
     ExportDecl(FnDecl(Top("f", b + 1),
                       Function(<< >>, <<ReturnStmt(DynImport("other", b + 2))>>))),
     \* export const v = require('a');
     ExportDecl(Var1("const", Top("v", b + 1), Require("a", b + 2))),
     \* let x = 3;
     Var1("let", Top("x", b + 1), Num(3)),
     \* log(x);
     Log(Top("x", b + 2), b + 1),
     \* const x = require('a');
     Var1("const", Top("x", b + 1), Require("a", b + 2)),
     \* const ns = require('other');
     Var1("const", Top("ns", b + 1), Require("other", b + 2)),
     \* function g() { return ns.foo; }
     FnDecl(Top("g", b + 1), Function(<< >>, <<ReturnStmt(Dot(Top("ns", b + 2), "foo", b + 2))>>)),
     \* log(ns.foo);
     Log(Dot(Top("ns", b + 2), "foo", b + 2), b + 1),
     \* log(ns[k]);
     Log(Index(Top("ns", b + 2), "k", b + 2), b + 1),
     \* exports.foo = 2;
     SetTo(Dot(Free("exports", b + 1), "foo", b + 1), Num(2)),
     \* exports.bar = x;
     SetTo(Dot(Free("exports", b + 1), "bar", b + 1), Top("x", b + 3)),
     \* module.exports.foo = 2;
     SetTo(Dot(Dot(Free("module", b + 1), "exports", b + 1), "foo", b + 1), Num(2)),
     \* exports[k] = 2;
     SetTo(Index(Free("exports", b + 1), "k", b + 1), Num(2)),
     \* log(exports.foo);
     Log(Dot(Free("exports", b + 2), "foo", b + 2), b + 1),
     \* log(exports);
     Log(Free("exports", b + 2), b + 1),
     \* log(module.exports);
     Log(Dot(Free("module", b + 2), "exports", b + 2), b + 1),
     \* this.foo = 2;
     SetTo(Dot(This(b + 1), "foo", b + 1), Num(2)),
     \* log(this);
     Log(This(b + 2), b + 1),
     \* exports = 2;
     ExprStmt(Assign(PatIdent(Free("exports", b + 1)), Num(2))),
     \* log(module);
     Log(Free("module", b + 2), b + 1),
     \* return;
     ReturnStmt(None),
     \* eval('x');
     ExprStmt(Call(Free("eval", b + 1), <<Str("x")>>, b + 1)),
     \* function w() { const y = require('other'); return y.foo; }
     FnDecl(Top("w", b + 1),
            Function(<< >>, <<Var1("const", Local("y", b + 2), Require("other", b + 3)),
                              ReturnStmt(Dot(Local("y", b + 4), "foo", b + 4))>>)),
     \* async function t() { const z = await import('other'); return z.foo; }
     FnDecl(Top("t", b + 1),
            Function(<< >>, <<Var1("const", Local("z", b + 2), Await(DynImport("other", b + 3))),
                              ReturnStmt(Dot(Local("z", b + 4), "foo", b + 4))>>)),
     \* import('other').then(u => u.foo);
     ExprStmt(Call(Dot(DynImport("other", b + 1), "then", b + 1),
                   <<Arrow(<<PatIdent(Local("u", b + 3))>>, Dot(Local("u", b + 4), "foo", b + 4))>>,
                   b + 1)),
     \* import('other');
     ExprStmt(DynImport("other", b + 1)),
     \* let s = (require('a'), require('b'));
     Var1("let", Top("s", b + 1), SeqExpr(<<Require("a", b + 2), Require("b", b + 3)>>)),
     \* if (k) require('a');
     IfStmt(Free("k", b + 1), ExprStmt(Require("a", b + 2))),
     \* require('a');
     ExprStmt(Require("a", b + 1)),
     \* log(global);
     Log(Free("global", b + 2), b + 1),
     \* const q = 4, {foo} = require('other'), r = 3;
     VarDecl("const",
             <<VarDeclarator(PatIdent(Top("q", b + 1)), Num(4)),
               VarDeclarator(PatObject(<<AssignPatProp(Top("foo", b + 2), None)>>),
                             Require("other", b + 3)),
               VarDeclarator(PatIdent(Top("r", b + 4)), Num(3))>> ),
     \* log(exports[k].foo);
     Log(Dot(Index(Free("exports", b + 2), "k", b + 2), "foo", b + 4), b + 1),
     \* log(exports.foo.bar);
     Log(Dot(Dot(Free("exports", b + 2), "foo", b + 2), "bar", b + 4), b + 1),
     \* function h() { exports['bar'] = 3; }
     FnDecl(Top("h", b + 1),
            Function(<< >>, <<SetTo(Member(Free("exports", b + 2), Str("bar"), TRUE, b + 2),
                                    Num(3))>>)),
     \* log(ns.foo, ns[k], ns.bar);
     ExprStmt(Call(Free("log", b + 1),
                   <<Dot(Top("ns", b + 2), "foo", b + 2),
                     Index(Top("ns", b + 4), "k", b + 4),
                     Dot(Top("ns", b + 6), "bar", b + 6)>>,
                   b + 1)),
     \* log(ns.foo, import('other'));
     ExprStmt(Call(Free("log", b + 1),
                   <<Dot(Top("ns", b + 2), "foo", b + 2), DynImport("other", b + 4)>>,
                   b + 1)),
     \* log(ns[k], ns.foo, import('other'));
     ExprStmt(Call(Free("log", b + 1),
                   <<Index(Top("ns", b + 2), "k", b + 2),
                     Dot(Top("ns", b + 4), "foo", b + 4),
                     DynImport("other", b + 6)>>,
                   b + 1)),
     \* export default this.foo;
     ExportDefaultExpr(Dot(This(b + 2), "foo", b + 2), b + 1),
     \* let x = eval('x');
     Var1("let", Top("x", b + 1), Call(Free("eval", b + 2), <<Str("x")>>, b + 2)),
     \* const f = function () { const d = require('b'); return d; };
     Var1("const", Top("f", b + 1),
          FnExpr(Function(<< >>, <<Var1("const", Local("d", b + 2), Require("b", b + 3)),
                                   ReturnStmt(Local("d", b + 4))>>))),
     \* const z = await import('other');
     Var1("const", Top("z", b + 1), Await(DynImport("other", b + 2))),
     \* log(q[exports[k] = 2]);
     Log(Member(Free("q", b + 2),
                Assign(PatExpr(Index(Free("exports", b + 4), "k", b + 4)), Num(2)),
                TRUE, b + 2),
         b + 1),
     \* exports.global = 2;
     SetTo(Dot(Free("exports", b + 1), "global", b + 1), Num(2)),
     \* require('a'), k, require('b'), require('a');
     ExprStmt(SeqExpr(<<Require("a", b + 1), Free("k", b + 2),
                        Require("b", b + 3), Require("a", b + 4)>>)),
     \* log(X);
     Log(Top("X", b + 2), b + 1),
     \* eval(X);
     ExprStmt(Call(Free("eval", b + 1), <<Top("X", b + 2)>>, b + 1)),
     \* log(q[this.foo]);
     Log(Member(Free("q", b + 2), Dot(This(b + 4), "foo", b + 4), TRUE, b + 2), b + 1) >>

\* The number of items of the catalogue.
NumItems == Len(Catalogue(0))

\* Distance between the source positions of two consecutive module items.
ItemSpan == 10

\* The module whose i-th item is item choice[i] of the catalogue.
ModuleOf(choice) == [i \in 1..Len(choice) |-> Catalogue(i * ItemSpan)[choice[i]]]

\* The names a module item exports.
ExportedNames(item) ==
  CASE item.t = "ExportNamed" -> {item.specifiers[i].exported : i \in 1..Len(item.specifiers)}
    [] item.t \in {"ExportDefaultExpr", "ExportDefaultDecl"} -> {"default"}
    [] item.t = "ExportDecl" ->
         IF item.decl.t = "VarDecl"
         THEN {p[1] : p \in collect_decls(item.decl)}
         ELSE {item.decl.ident.sym}
    [] OTHER -> {}

\* The top-level bindings a module item declares.
Declared(item) == {p \in collect_decls(item) : p[2] = CtxtGlobal}

\* A module the parser accepts: no binding is declared twice and no name is
\* exported twice.
WellFormed(body) ==
  \A i, j \in 1..Len(body) :
    i # j => /\ Declared(body[i]) \cap Declared(body[j]) = {}
             /\ ExportedNames(body[i]) \cap ExportedNames(body[j]) = {}

Choices == UNION {[1..n -> 1..NumItems] : n \in 0..MaxItems}

\* ------------------------------------------------------------ state machine

VARIABLES
  body,     \* the module body given to hoist()
  pc,       \* where hoist() is: "new", "collect", "fold", "done", "aborted"
  idx,      \* index of the next module item of the running pass
  collect,  \* the Collect visitor
  st,       \* the Hoist folder and the locals of fold_module, None before Hoist::new
  out,      \* the body of the module hoist() returns, None before it returns
  res,      \* the HoistResult hoist() returns, None before it returns
  first     \* what the first run returned, None until a second run starts

vars == <<body, pc, idx, collect, st, out, res, first>>

Init ==
  /\ body \in {ModuleOf(choice) : choice \in Choices}
  /\ WellFormed(body)
  /\ pc = "new"
  /\ idx = 1
  /\ collect = CollectNew(collect_decls_seq(body))
  /\ st = None
  /\ out = None
  /\ res = None
  /\ first = None

\* Collect::visit_module, up to its first child.
VisitModuleEnter ==
  /\ pc = "new"
  /\ collect' = visit_module_enter(collect)
  /\ pc' = "collect"
  /\ UNCHANGED <<body, idx, st, out, res, first>>

\* Collect::visit_module_item on the next item of the body.
VisitModuleItem ==
  /\ pc = "collect"
  /\ idx <= Len(body)
  /\ collect' = visit_module_item(collect, body[idx])
  /\ idx' = idx + 1
  /\ UNCHANGED <<body, pc, st, out, res, first>>

\* The end of Collect::visit_module, then Hoist::new and the locals of fold_module.
VisitModuleExit ==
  /\ pc = "collect"
  /\ idx > Len(body)
  /\ collect' = visit_module_exit(collect)
  /\ st' = FoldModuleNew(collect')
  /\ pc' = "fold"
  /\ idx' = 1
  /\ UNCHANGED <<body, out, res, first>>

\* One iteration of the loop of Hoist::fold_module; hoist() aborts when the item
\* reaches unreachable!().
FoldModuleItem ==
  /\ pc = "fold"
  /\ idx <= Len(body)
  /\ st' = fold_module_item(st, body[idx])
  /\ idx' = idx + 1
  /\ pc' = IF st'.h.panicked THEN "aborted" ELSE pc
  /\ UNCHANGED <<body, collect, out, res, first>>

\* The tail of Hoist::fold_module and Hoist::get_result.
FoldModuleFinish ==
  /\ pc = "fold"
  /\ idx > Len(body)
  /\ \E order \in Orders(st.h.export_decls) : out' = fold_module_finish(st, order)
  /\ res' = get_result(st.h)
  /\ pc' = "done"
  /\ UNCHANGED <<body, idx, collect, st, first>>

\* hoist() has returned and is called a second time with the same arguments:
\* Collect::new again, over the same module and the same decls.
HoistAgain ==
  /\ pc = "done"
  /\ first = None
  /\ first' = [module |-> out, result |-> res]
  /\ collect' = CollectNew(collect.decls)
  /\ st' = None
  /\ out' = None
  /\ res' = None
  /\ idx' = 1
  /\ pc' = "new"
  /\ UNCHANGED body

Next ==
  \/ VisitModuleEnter
  \/ VisitModuleItem
  \/ VisitModuleExit
  \/ FoldModuleItem
  \/ FoldModuleFinish
  \/ HoistAgain

Spec == Init /\ [][Next]_vars

\* The module is visited a second time once Collect::visit_module has returned:
\* by the same Collect, which keeps its tables and flags, or by a fresh one made
\* with the same decls.  first keeps the Collect of the first visit.
VisitModuleAgain ==
  /\ pc = "fold"
  /\ idx = 1
  /\ first = None
  /\ \E same \in BOOLEAN :
       /\ first' = [collect |-> collect, same |-> same]
       /\ collect' = IF same THEN collect ELSE CollectNew(collect.decls)
  /\ st' = None
  /\ pc' = "new"
  /\ UNCHANGED <<body, idx, out, res>>

\* Collect alone, run twice over the module.
NextRevisit ==
  \/ VisitModuleEnter
  \/ VisitModuleItem
  \/ VisitModuleExit
  \/ VisitModuleAgain

SpecRevisit == Init /\ [][NextRevisit]_vars

\* ------------------------------------------------------------ properties

\* The identifiers and module declarations of a tree, in document order.
RECURSIVE Flatten(_), FlattenSeq(_, _)
Flatten(node) ==
  IF node.t \in {"Ident", "Import", "ExportNamed", "ExportAll"} THEN <<node>>
  ELSE FlattenSeq(Children(node), 1)

FlattenSeq(nodes, i) ==
  IF i > Len(nodes) THEN << >> ELSE Flatten(nodes[i]) \o FlattenSeq(nodes, i + 1)

\* The strings hash! is tabulated for, and the sources modules name.
Hashed == {"other", "foo", "bar", "default", "x", "a", "b", "y"}
Sources == {"other", "a", "b"}

\* Every identifier of the schema $M$import$H(s)[$H(k)] or $M$importAsync$H(s)[$H(k)].
ImportNamesOf(s) ==
  {ImportName(s, k) : k \in Hashed \cup {"*"}} \cup {ImportAsyncName(s, k) : k \in Hashed \cup {"*"}}

\* Where the tokens of a flattened output use a name of a set, and where they
\* are the bare import of a source.
UsesOf(toks, names) == {i \in DOMAIN toks : toks[i].t = "Ident" /\ toks[i].sym \in names}
ImportsOf(toks, s) == {i \in DOMAIN toks : toks[i] = BareImport(s)}

\* C1 (as the specification states it): whenever the output of hoist contains an
\* identifier $M$import$H(s)..., or $M$importAsync$H(s)..., a bare import "M:s"
\* occurs earlier in document order than the first of those identifiers.
C1_ImportBeforeFirstUse ==
  pc = "done" =>
    \A s \in Sources :
      LET toks == FlattenSeq(out, 1)
          uses == UsesOf(toks, ImportNamesOf(s))
      IN uses # {} => \E j \in ImportsOf(toks, s) : \A i \in uses : j < i

\* C2 (as the specification states it): whatever kind of module item is folded,
\* the bare imports it pushed into requires_in_stmt are emitted with that item, so
\* the buffer is empty after every item of fold_module and when fold_module returns.
C2_RequiresFlushedWithItem ==
  pc \in {"fold", "done"} => st.h.requires_in_stmt = << >>

\* Does the tree mention the string s?
RECURSIVE Mentions(_, _), MentionsSeq(_, _, _)
Mentions(node, s) ==
  \/ node.t = "Str" /\ node.value = s
  \/ MentionsSeq(Children(node), s, 1)

MentionsSeq(nodes, s, i) ==
  IF i > Len(nodes) THEN FALSE ELSE Mentions(nodes[i], s) \/ MentionsSeq(nodes, s, i + 1)

\* The module item names source s in a top-level position: a static import, a
\* re-export, or a top-level declarator `x = require(s)`.
TopLevelUse(item, s) ==
  CASE item.t = "Import" -> item.src = s
    [] item.t = "ExportNamed" -> item.src.t = "Str" /\ item.src.value = s
    [] item.t = "ExportAll" -> item.src = s
    [] item.t = "VarDecl" ->
         /\ \E i \in DOMAIN item.decls : Mentions(item.decls[i], s)
         /\ \A i \in DOMAIN item.decls :
              Mentions(item.decls[i], s) =>
                /\ item.decls[i].name.t = "PatIdent"
                /\ item.decls[i].init.t = "Call"
                /\ item.decls[i].init = Require(s, item.decls[i].init.pos)
    [] OTHER -> FALSE

\* The module item names source s anywhere.
AnyUse(item, s) ==
  CASE item.t \in {"Import", "ExportAll"} -> item.src = s
    [] item.t = "ExportNamed" -> item.src.t = "Str" /\ item.src.value = s
    [] OTHER -> Mentions(item, s)

\* C3 (as the specification states it): a source that the module names only in
\* top-level positions gets exactly one bare import "M:s" in the output, however
\* many statements import or re-export it.
C3_OneImportPerTopLevelSource ==
  pc = "done" =>
    \A s \in Sources :
      ( /\ \E i \in DOMAIN body : AnyUse(body[i], s)
        /\ \A i \in DOMAIN body : AnyUse(body[i], s) => TopLevelUse(body[i], s) )
      => Cardinality({i \in DOMAIN out : out[i] = BareImport(s)}) = 1

\* The fresh name the specification gives an exported name: $M$export$e, and
\* $M$exports for the whole module.
ExportSchema(e) ==
  IF e = "*" THEN "$" \o module_id \o "$exports" ELSE "$" \o module_id \o "$export$" \o e

LocalAliases(e) ==
  { collect.exports[id(body[i].specifiers[j].orig)] :
      <<i, j>> \in { p \in (DOMAIN body) \X (1..4) :
                       /\ body[p[1]].t = "ExportNamed"
                       /\ body[p[1]].src.t = "None"
                       /\ p[2] \in DOMAIN body[p[1]].specifiers
                       /\ body[p[1]].specifiers[p[2]].kind = "Named"
                       /\ body[p[1]].specifiers[p[2]].exported = e
                       /\ id(body[p[1]].specifiers[p[2]].orig) \in DOMAIN collect.exports } }

C5_SelfReferencesExported ==
  pc = "done" =>
    \A K \in res.self_references :
      /\ K \in DOMAIN res.exported_symbols
      /\ K = "*" => res.exported_symbols[K].name = "$" \o module_id \o "$exports"

\* C5's case: a rewritten read of `exports.K` put K into self_references.
C5_SelfReferenceReached ==
  /\ pc = "done"
  /\ \E K \in res.self_references : K # "*"
  /\ \E i \in DOMAIN body : body[i].t = "ExprStmt" /\ body[i].expr.t = "Call"

\* The sources of the `import(s)` calls of a tree.
RECURSIVE DynImportsIn(_), DynImportsInSeq(_, _)
DynImportsIn(node) ==
  (IF match_import(node).some THEN {match_import(node).v} ELSE {})
    \cup DynImportsInSeq(Children(node), 1)

DynImportsInSeq(nodes, i) ==
  IF i > Len(nodes) THEN {} ELSE DynImportsIn(nodes[i]) \cup DynImportsInSeq(nodes, i + 1)

\* C6 (as the specification states it): every key of dynamic_imports is
\* $M$importAsync$H(s) for the source s of an `import(s)` call of the module and
\* maps to s; every `import(s)` call is replaced by that identifier, and a bare
\* import "M:s" precedes it.
C6_DynamicImportsConsistent ==
  pc = "done" =>
    /\ \A k \in DOMAIN res.dynamic_imports :
         \E s \in DynImportsInSeq(body, 1) :
           /\ k = "$" \o module_id \o "$importAsync$" \o hash(s)
           /\ res.dynamic_imports[k] = s
    /\ DynImportsInSeq(out, 1) = {}
    /\ \A s \in DynImportsInSeq(body, 1) :
         LET toks == FlattenSeq(out, 1)
             uses == UsesOf(toks, {"$" \o module_id \o "$importAsync$" \o hash(s)})
         IN /\ uses # {}
            /\ \E j \in ImportsOf(toks, s) : \A i \in uses : j < i

\* C7 (as the specification states it): a second run of hoist on the same
\* arguments returns the same module body, item by item, and the same HoistResult.
C7_Deterministic ==
  (pc = "done" /\ first # None) => (first.module = out /\ first.result = res)

\* C8: when should_wrap was set by a free `module` used as a bare value or by an
\* assignment binding a free `exports`, has_cjs_exports is true and
\* static_cjs_exports is false; a step of Collect that sets should_wrap while only
\* top-level returns and free eval calls have caused it so far leaves both flags
\* as they were.
C8_ClassifierRelation ==
  /\ [](collect.wrap_cause \cap {"module", "exports"} # {}
          => (collect.should_wrap /\ collect.has_cjs_exports /\ ~collect.static_cjs_exports))
  /\ [][ ( /\ pc = "collect"
           /\ collect'.wrap_cause # collect.wrap_cause
           /\ collect'.wrap_cause \subseteq {"return", "eval"} )
         => ( /\ collect'.should_wrap
              /\ collect'.has_cjs_exports = collect.has_cjs_exports
              /\ collect'.static_cjs_exports = collect.static_cjs_exports ) ]_vars

\* C8's case: Collect has finished a module in which an assignment to a free
\* `exports` or a bare `module` set should_wrap.
C8_ExportsCauseReached ==
  /\ pc = "done"
  /\ res.should_wrap
  /\ collect.wrap_cause \cap {"module", "exports"} # {}
  /\ res.has_cjs_exports

\* The names Hoist can make up for a module: import and export identifiers,
\* renamed top-level variables and $parcel$global.
FreshNames ==
  LET toks == FlattenSeq(body, 1)
      words == {toks[i].sym : i \in {j \in DOMAIN toks : toks[j].t = "Ident"}}
                 \cup UNION {ExportedNames(body[i]) : i \in DOMAIN body}
                 \cup {"default"}
  IN UNION {ImportNamesOf(s) : s \in Sources}
       \cup {ExportSchema(e) : e \in words \cup {"*"}}
       \cup {"$" \o module_id \o "$var$" \o w : w \in words}
       \cup {"$parcel$global"}

\* C9 (as the specification states it): every identifier of the output that
\* Hoist rewrote or made up carries the empty syntax context.
C9_FreshIdentsHaveEmptyContext ==
  pc = "done" =>
    LET toks == FlattenSeq(out, 1) IN
      \A i \in DOMAIN toks :
        (toks[i].t = "Ident" /\ toks[i].sym \in FreshNames) => toks[i].ctxt = CtxtEmpty

\* exported_symbols of the running fold, and of the result once hoist returned.
ExportedSoFar == IF pc \in {"fold", "done", "aborted"} THEN st.h.exported_symbols ELSE EmptyMap

\* C10: once exported_symbols has an entry for e, no step of the fold changes the
\* fresh name or the location stored for e: the map only grows.
C10_FirstWriterWins ==
  [][ pc = "fold" =>
        /\ \A e \in DOMAIN ExportedSoFar :
             e \in DOMAIN ExportedSoFar' /\ ExportedSoFar'[e] = ExportedSoFar[e]
        /\ pc' = "done" => res'.exported_symbols = ExportedSoFar ]_vars

\* What folding one item of the body alone would record for its exports.
ExportsOfItem(i) == fold_module_item(FoldModuleNew(collect), body[i]).h.exported_symbols

\* C10's case: two items of the module write the same exported name with
\* different locations, and the result holds what the first of them wrote.
C10_SecondWriterReached ==
  /\ pc = "done"
  /\ \E i, j \in DOMAIN body :
       /\ i < j
       /\ \E e \in DOMAIN ExportsOfItem(i) \cap DOMAIN ExportsOfItem(j) :
            /\ ExportsOfItem(i)[e] # ExportsOfItem(j)[e]
            /\ res.exported_symbols[e] = ExportsOfItem(i)[e]

\* imported_symbols of the running fold.
ImportedSoFar == IF pc \in {"fold", "done", "aborted"} THEN st.h.imported_symbols ELSE EmptyMap

\* C11 (as the specification states it): once imported_symbols has an entry for
\* the fresh name n, no later item of the fold changes the location stored for n.
C11_ImportLocIsFirstOccurrence ==
  [][ pc = "fold" =>
        \A n \in DOMAIN ImportedSoFar :
          n \in DOMAIN ImportedSoFar' /\ ImportedSoFar'[n].loc = ImportedSoFar[n].loc ]_vars

\* Whether an expression denotes the CJS export object: a free `exports`, a
\* free `module.exports`, or `this` outside every function and class.
IsCjsExportObject(e, decls, in_fn) ==
  \/ e.t = "Ident" /\ e.sym = "exports" /\ id(e) \notin decls
  \/ e.t = "Member" /\ match_member_expr(e, decls)
  \/ e.t = "This" /\ ~in_fn

\* How a tree reaches the CJS export object: "static" for a member access with
\* a static key, "computed" for one with a computed non-literal key, "bare" for
\* a use of the object as a value.
RECURSIVE CjsAccesses(_, _, _), CjsAccessesSeq(_, _, _)
CjsAccesses(node, decls, in_fn) ==
  CASE IsCjsExportObject(node, decls, in_fn) -> {"bare"}
    [] node.t = "Member" /\ ~IsCjsExportObject(node, decls, in_fn) ->
         LET key == IF node.computed THEN CjsAccesses(node.prop, decls, in_fn) ELSE {}
         IN IF IsCjsExportObject(node.obj, decls, in_fn)
            THEN {IF StaticKey(node).some THEN "static" ELSE "computed"} \cup key
            ELSE CjsAccesses(node.obj, decls, in_fn) \cup key
    [] node.t \in {"Function", "Class"} -> CjsAccessesSeq(Children(node), decls, TRUE)
    [] OTHER -> CjsAccessesSeq(Children(node), decls, in_fn)

CjsAccessesSeq(nodes, decls, in_fn) ==
  UNION {CjsAccesses(nodes[i], decls, in_fn) : i \in 1..Len(nodes)}

\* C12 (as the specification states it): when Collect has finished with
\* static_cjs_exports = true, no access to the CJS export object anywhere in the
\* module has a computed non-literal key or uses the object as a bare value.
C12_StaticCjsExportsSound ==
  (pc \in {"fold", "done"} /\ collect.static_cjs_exports) =>
    CjsAccessesSeq(body, collect.decls, FALSE) \cap {"computed", "bare"} = {}

\* C13 (as the specification states it): when Collect has finished, has_cjs_exports
\* is true if the module holds, in any position, a member access with a static
\* key on a free `exports`, a free `module.exports` or a module-level `this`.
C13_HasCjsExportsComplete ==
  (pc \in {"fold", "done"} /\ "static" \in CjsAccessesSeq(body, collect.decls, FALSE)) =>
    collect.has_cjs_exports

\* The assignments `exports.K = ..`, `exports['K'] = ..`, `module.exports.K = ..`
\* and `module.exports['K'] = ..` of a tree, each as <<K, position of the member>>.
RECURSIVE CjsWrites(_, _), CjsWritesSeq(_, _)
CjsWrites(node, decls) ==
  LET own ==
        IF /\ node.t = "Assign"
           /\ node.left.t = "PatExpr"
           /\ node.left.expr.t = "Member"
           /\ StaticKey(node.left.expr).some
           /\ \/ /\ node.left.expr.obj.t = "Ident"
                 /\ node.left.expr.obj.sym = "exports"
                 /\ id(node.left.expr.obj) \notin decls
              \/ /\ node.left.expr.obj.t = "Member"
                 /\ match_member_expr(node.left.expr.obj, decls)
        THEN {<<StaticKey(node.left.expr).v, node.left.expr.pos>>}
        ELSE {}
  IN own \cup CjsWritesSeq(Children(node), decls)

CjsWritesSeq(nodes, decls) == UNION {CjsWrites(nodes[i], decls) : i \in 1..Len(nodes)}

\* The assignments of a tree to a plain identifier, each as the identifier.
RECURSIVE IdentWrites(_), IdentWritesSeq(_)
IdentWrites(node) ==
  (IF node.t = "Assign" /\ node.left.t = "PatIdent" THEN {node.left.id} ELSE {})
    \cup IdentWritesSeq(Children(node))

IdentWritesSeq(nodes) == UNION {IdentWrites(nodes[i]) : i \in 1..Len(nodes)}

\* C14: when hoist returns with static_cjs_exports true and should_wrap false,
\* every static CJS export assignment of the module has become an assignment to
\* $M$export$K and none is left; each assigned K has exactly one `var $M$export$K;`
\* in the output, after the hoisted imports, and only those imports and such
\* declarations come before it.
C14_StaticCjsWrites ==
  (pc = "done" /\ collect.static_cjs_exports /\ ~collect.should_wrap) =>
    LET writes == CjsWritesSeq(body, collect.decls)
        keys == {w[1] : w \in writes}
        decl(k) == {i \in DOMAIN out : out[i] = ExportVarDecl(ExportName(k))}
        decls == UNION {decl(k) : k \in keys}
    IN /\ CjsWritesSeq(out, collect.decls) = {}
       /\ \A w \in writes : Ident(ExportName(w[1]), w[2], CtxtEmpty) \in IdentWritesSeq(out)
       /\ \A k \in keys : Cardinality(decl(k)) = 1
       /\ SubSeq(out, 1, Len(st.hoisted_imports)) = st.hoisted_imports
       /\ \A i \in decls :
            /\ i > Len(st.hoisted_imports)
            /\ \A j \in 1..(i - 1) : j <= Len(st.hoisted_imports) \/ j \in decls

\* C14's case: a module without wrapping assigns the same static CJS export at
\* two places, and hoist has returned.
C14_RepeatedWriteReached ==
  /\ pc = "done"
  /\ collect.static_cjs_exports
  /\ ~collect.should_wrap
  /\ \E v, w \in CjsWritesSeq(body, collect.decls) : v[1] = w[1] /\ v[2] # w[2]

\* ------------------------------------------------------------ C15

\* Every node of a syntax tree, and of a sequence of trees.
RECURSIVE SubNodes(_), SubNodesSeq(_)
SubNodes(node) == {node} \cup SubNodesSeq(Children(node))

SubNodesSeq(nodes) == UNION {SubNodes(nodes[i]) : i \in 1..Len(nodes)}

\* The member accesses `ns.K` of the module on a binding ns = (s, "*", non-async)
\* of Collect's final imports table.
NamespaceSites ==
  {m \in SubNodesSeq(body) :
     /\ m.t = "Member"
     /\ StaticKey(m).some
     /\ m.obj.t = "Ident"
     /\ id(m.obj) \in DOMAIN collect.imports
     /\ collect.imports[id(m.obj)].local = "*"
     /\ ~collect.imports[id(m.obj)].is_async}

\* The output holds the per-symbol identifier in the place of the access m.
InlinedSite(m) ==
  Ident(ImportName(collect.imports[id(m.obj)].source, StaticKey(m).v), m.pos, CtxtEmpty)
    \in SubNodesSeq(out)

\* The output holds, in the place of the access m, the same member of the
\* namespace symbol of the source.
NamespaceSymbolSite(m) ==
  \E n \in SubNodesSeq(out) :
    /\ n.t = "Member"
    /\ n.pos = m.pos
    /\ n.prop = m.prop
    /\ n.obj.t = "Ident"
    /\ n.obj.sym = ImportName(collect.imports[id(m.obj)].source, "*")

\* C15 (as the specification states it): with Collect's final tables, `ns.K` is
\* replaced by $M$import$H(s)$H(K) if and only if ns is not in non_static_access
\* and s is not in non_static_requires; and whenever ns has a non-static access
\* anywhere in the module, every `ns.K` is emitted as $M$import$H(s).K.
C15_NamespaceInlining ==
  pc = "done" =>
    \A m \in NamespaceSites :
      /\ InlinedSite(m) <=>
           /\ id(m.obj) \notin collect.non_static_access
           /\ collect.imports[id(m.obj)].source \notin collect.non_static_requires
      /\ id(m.obj) \in collect.non_static_access => NamespaceSymbolSite(m)

\* C15 (amended): the same, but `ns.K` is emitted against the namespace symbol
\* only when s is not in non_static_requires; when it is, ns is not replaced by
\* any import identifier at all.
C15_NamespaceInliningUnlessNonStaticRequire ==
  pc = "done" =>
    \A m \in NamespaceSites :
      LET s == collect.imports[id(m.obj)].source IN
        /\ InlinedSite(m) <=>
             /\ id(m.obj) \notin collect.non_static_access
             /\ s \notin collect.non_static_requires
        /\ (id(m.obj) \in collect.non_static_access /\ s \notin collect.non_static_requires)
             => NamespaceSymbolSite(m)
        /\ s \in collect.non_static_requires => ~NamespaceSymbolSite(m)

\* A static access of a namespace precedes a non-static access of it, and is
\* emitted against the namespace symbol.
C15_LaterNonStaticAccessReached ==
  /\ pc = "done"
  /\ \E m \in NamespaceSites :
       /\ NamespaceSymbolSite(m)
       /\ \E n \in SubNodesSeq(body) :
            /\ n.t = "Member"
            /\ ~StaticKey(n).some
            /\ n.obj = [m.obj EXCEPT !.pos = n.obj.pos]
            /\ n.pos > m.pos

\* ------------------------------------------------------------ C16

\* The expressions of the module on the CJS export object: a free `exports`,
\* `module.exports`, and the static members `exports.K`, `module.exports.K`
\* and `this.K`.
CjsExpressions ==
  {m \in SubNodesSeq(body) :
     \/ m.t = "Ident" /\ m.sym = "exports" /\ id(m) \notin collect.decls
     \/ m.t = "Member" /\ match_member_expr(m, collect.decls)
     \/ /\ m.t = "Member"
        /\ StaticKey(m).some
        /\ IsCjsExportObject(m.obj, collect.decls, FALSE)}

\* Every name $M$var$x for an identifier x of the module.
VarNames ==
  {"$" \o module_id \o "$var$" \o n.sym : n \in {m \in SubNodesSeq(body) : m.t = "Ident"}}

\* The keys of the static member accesses of the module.
StaticKeys ==
  {StaticKey(m).v : m \in {n \in SubNodesSeq(body) : n.t = "Member" /\ StaticKey(n).some}}

\* The returned module renames no identifier to $M$var$..., declares no ambient
\* `var $M$export$K;` and the result has no self reference.
NothingHoistedForWrapped ==
  /\ \A n \in SubNodesSeq(out) : n.t = "Ident" => n.sym \notin VarNames
  /\ \A i \in DOMAIN out : \A k \in StaticKeys \cup {"*"} : out[i] # ExportVarDecl(ExportName(k))
  /\ res.self_references = {}

\* C16 (as the specification states it): when should_wrap is true, Hoist renames
\* no identifier to $M$var$..., leaves every `exports`, `exports.K`,
\* `module.exports`, `module.exports.K` and `this.K` and every CJS export
\* assignment as it was written, emits no ambient `var $M$export$K;` and adds
\* nothing to self_references.
C16_WrappingLeavesCjsIntact ==
  (pc = "done" /\ collect.should_wrap) =>
    /\ NothingHoistedForWrapped
    /\ \A m \in CjsExpressions : m \in SubNodesSeq(out)

\* What does hold of a wrapped module: the same, except that in an ES module a
\* module-level `this.K` is not left as written but becomes `undefined.K`.
C16_WrappingLeavesCjsIntactUnlessEsmThis ==
  (pc = "done" /\ collect.should_wrap) =>
    /\ NothingHoistedForWrapped
    /\ \A m \in CjsExpressions :
         IF m.t = "Member" /\ m.obj.t = "This" /\ collect.is_esm
         THEN [m EXCEPT !.obj = Ident("undefined", DUMMY_POS, CtxtEmpty)] \in SubNodesSeq(out)
         ELSE m \in SubNodesSeq(out)

\* A wrapped CJS module that assigns to a member of `exports` has been hoisted.
C16_WrappedCjsWriteReached ==
  /\ pc = "done"
  /\ collect.should_wrap
  /\ \E a \in SubNodesSeq(body) :
       /\ a.t = "Assign"
       /\ a.left.t = "PatExpr"
       /\ a.left.expr \in CjsExpressions
       /\ a.left.expr.t = "Member"

\* ------------------------------------------------------------ C17

\* The pairs <<e, x>> of the module: the local binding named x, which is not an
\* import, is exported under the name e by a specifier `export {x as e}` or by
\* an export declaration.
LocalExports ==
  LET local(ident) == id(ident) \notin DOMAIN collect.imports
      of(item) ==
        CASE item.t = "ExportNamed" /\ item.src.t = "None" ->
               {<<item.specifiers[j].exported, item.specifiers[j].orig.sym>> :
                  j \in {k \in DOMAIN item.specifiers :
                           /\ item.specifiers[k].kind = "Named"
                           /\ local(item.specifiers[k].orig)}}
          [] item.t = "ExportDecl" /\ item.decl.t \in {"FnDecl", "ClassDecl"} ->
               {<<item.decl.ident.sym, item.decl.ident.sym>>}
          [] item.t = "ExportDecl" /\ item.decl.t = "VarDecl" ->
               {<<p[1], p[1]>> : p \in collect_decls(item.decl) \ DOMAIN collect.imports}
          [] item.t = "ExportDefaultDecl" /\ item.ident.t = "Ident" ->
               {<<"default", item.ident.sym>>}
          [] OTHER -> {}
  IN UNION {of(body[i]) : i \in DOMAIN body}

\* C17: when should_wrap is true, for every local binding x exported under the
\* name e, exported_symbols[e] holds the original name x, wherever the export
\* specifier stands and also for the second and later names of x.
C17_WrappedExportsKeepLocalName ==
  (pc = "done" /\ collect.should_wrap) =>
    \A p \in LocalExports :
      /\ p[1] \in DOMAIN res.exported_symbols
      /\ res.exported_symbols[p[1]].name = p[2]

\* ------------------------------------------------------------ C18

\* The sources of the `require(s)` calls of a tree that stand inside a function,
\* an arrow function, a class, or the branch of a conditional; nested tells
\* whether the tree itself stands inside one.
RECURSIVE NestedRequires(_, _), NestedRequiresSeq(_, _)
NestedRequires(node, nested) ==
  LET own == IF nested /\ node.t = "Call" /\ match_require(node, collect.decls).some
             THEN {match_require(node, collect.decls).v}
             ELSE {}
  IN own \cup
     (IF node.t = "If"
      THEN NestedRequires(node.test, nested) \cup NestedRequires(node.cons, TRUE)
      ELSE NestedRequiresSeq(Children(node),
                             nested \/ node.t \in {"Function", "Arrow", "Class"}))

NestedRequiresSeq(nodes, nested) ==
  UNION {NestedRequires(nodes[i], nested) : i \in 1..Len(nodes)}

\* C18: for every `require(s)` inside a function body or inside a conditional, as
\* the initializer of a declarator or as a bare expression, and whether the
\* function is a top-level statement or the initializer of a top-level variable
\* declaration, Collect's final wrapped_requires contains s.
C18_NestedRequiresWrapped ==
  pc \in {"fold", "done"} => NestedRequiresSeq(body, FALSE) \subseteq collect.wrapped_requires

\* ------------------------------------------------------------ C19

Tables(c) ==
  [ imports |-> c.imports,
    exports |-> c.exports,
    non_static_access |-> c.non_static_access,
    non_static_requires |-> c.non_static_requires,
    wrapped_requires |-> c.wrapped_requires,
    is_esm |-> c.is_esm,
    static_cjs_exports |-> c.static_cjs_exports,
    has_cjs_exports |-> c.has_cjs_exports,
    should_wrap |-> c.should_wrap ]

\* C20: visiting the same module a second time, with the same Collect or with a
\* fresh one made with the same decls, ends with the same imports, exports,
\* non_static_access, non_static_requires, wrapped_requires, is_esm,
\* static_cjs_exports, has_cjs_exports and should_wrap as the first visit.
C20_CollectIdempotent ==
  (pc = "fold" /\ first # None) => Tables(collect) = Tables(first.collect)

\* The same Collect has visited twice a module that accesses a namespace
\* non-statically and exports a binding.
C20_SameInstanceRevisited ==
  /\ pc = "fold"
  /\ first # None
  /\ first.same
  /\ collect.non_static_access \cap DOMAIN collect.imports # {}
  /\ DOMAIN collect.exports # {}

\* ------------------------------------------------------------ C21

\* C21: hoist never aborts on a module whose default exports are class, function
\* or expression forms: the static-rewrite branch of a CJS export assignment is
\* never reached with a computed key, also when the assignment stands in a
\* subtree that Collect does not traverse.
C21_NeverAborts == pc # "aborted"

\* ------------------------------------------------------------ C22

\* The member accesses of the module on a free `exports` or on `module.exports`,
\* with a static or a computed key.
CjsMembers ==
  {m \in SubNodesSeq(body) :
     /\ m.t = "Member"
     /\ \/ m.obj.t = "Ident" /\ m.obj.sym = "exports" /\ id(m.obj) \notin collect.decls
        \/ m.obj.t = "Member" /\ match_member_expr(m.obj, collect.decls)}

\* The output holds, in the place of the access m, a member of $M$exports.
WholeObjectSite(m) ==
  \E n \in SubNodesSeq(out) :
    /\ n.t = "Member"
    /\ n.pos = m.pos
    /\ n.computed = m.computed
    /\ n.obj.t = "Ident"
    /\ n.obj.sym = ExportName("*")

CjsNamedTargets ==
  {a.left.expr : a \in {n \in SubNodesSeq(body) :
                          /\ n.t = "Assign"
                          /\ n.left.t = "PatExpr"
                          /\ n.left.expr \in CjsMembers
                          /\ ~n.left.expr.computed
                          /\ n.left.expr.prop.t = "Ident"}}

\* C23: when static_cjs_exports is false and should_wrap is false, the rewrite of
\* `exports.P = rhs` or `module.exports.P = rhs` replaces the object of the target
\* by $M$exports and keeps the property: a non-computed property name P is never
\* renamed, whatever P is.
C23_NonStaticWriteKeepsProperty ==
  (pc = "done" /\ ~collect.static_cjs_exports /\ ~collect.should_wrap) =>
    \A m \in CjsNamedTargets :
      \E n \in SubNodesSeq(out) :
        /\ n.t = "Member"
        /\ n.pos = m.pos
        /\ n.obj.t = "Ident"
        /\ n.obj.sym = ExportName("*")
        /\ n.prop = m.prop
        /\ n.computed = m.computed

\* ------------------------------------------------------------ C24

\* The sources of the `require(s)` and `import(s)` calls of a tree, in document
\* order: the bare imports that folding the tree defers.
RECURSIVE RequireCalls(_), RequireCallsSeq(_, _)
RequireCalls(node) ==
  IF node.t = "Call" /\ match_require(node, collect.decls).some
  THEN <<match_require(node, collect.decls).v>>
  ELSE IF match_import(node).some THEN <<match_import(node).v>>
  ELSE RequireCallsSeq(Children(node), 1)

RequireCallsSeq(nodes, i) ==
  IF i > Len(nodes) THEN << >> ELSE RequireCalls(nodes[i]) \o RequireCallsSeq(nodes, i + 1)

\* A declarator is known by the source positions of the identifiers of its pattern.
DeclaratorMark(d) ==
  <<"declarator", {Flatten(d.name)[i].pos : i \in DOMAIN Flatten(d.name)} \ {DUMMY_POS}>>

\* The source of the bare import that replaces a top-level declarator: its
\* initializer is `require(s)` or `require(s).K` and s is not in
\* non_static_requires.
ReplacedBy(d) ==
  LET direct == IF d.init.t = "Call" THEN match_require(d.init, collect.decls) ELSE NoMatch
      member == IF d.init.t = "Member" THEN match_require(d.init.obj, collect.decls) ELSE NoMatch
      found == IF direct.some THEN direct ELSE member
  IN IF found.some /\ found.v \notin collect.non_static_requires THEN found ELSE NoMatch

\* What the claim prescribes for the declarators from the i-th on: a bare import
\* in the place of a replaced declarator, and every other declarator after the
\* imports its initializer defers.
RECURSIVE ExpectedMarks(_, _)
ExpectedMarks(decls, i) ==
  IF i > Len(decls) THEN << >>
  ELSE (IF ReplacedBy(decls[i]).some
        THEN <<BareImport(ReplacedBy(decls[i]).v)>>
        ELSE [j \in 1..Len(RequireCalls(decls[i])) |-> BareImport(RequireCalls(decls[i])[j])]
               \o <<DeclaratorMark(decls[i])>>)
       \o ExpectedMarks(decls, i + 1)

\* The imports and the declarators of a sequence of emitted items, in order.
RECURSIVE EmittedMarks(_, _)
EmittedMarks(items, i) ==
  IF i > Len(items) THEN << >>
  ELSE (IF items[i].t = "VarDecl"
        THEN [j \in 1..Len(items[i].decls) |-> DeclaratorMark(items[i].decls[j])]
        ELSE <<items[i]>>)
       \o EmittedMarks(items, i + 1)

C24_VarDeclSplitAfterFlush ==
  [][ ( /\ pc = "fold"
        /\ pc' = "fold"
        /\ idx <= Len(body)
        /\ body[idx].t = "VarDecl"
        /\ st.h.requires_in_stmt = << >> )
      => LET emitted == SubSeq(st'.items, Len(st.items) + 1, Len(st'.items)) IN
           /\ EmittedMarks(emitted, 1) = ExpectedMarks(body[idx].decls, 1)
           /\ \A k \in DOMAIN emitted :
                emitted[k].t = "VarDecl" => emitted[k].kind = body[idx].kind ]_vars

\* ------------------------------------------------------------ C25

\* The sequence expressions of the module.
SeqExprs == {q \in SubNodesSeq(body) : q.t = "Seq"}

\* What the claim prescribes for the i-th subexpression of the sequence q when
\* it is a bare `require(s)`: the import identifier, under a logical NOT unless
\* it is the last one.
ExpectedRequire(q, i) ==
  LET ident == Ident(ImportName(match_require(q.exprs[i], collect.decls).v, "*"),
                     q.exprs[i].pos, CtxtEmpty)
  IN IF i < Len(q.exprs) THEN Unary("!", ident, DUMMY_POS) ELSE ident

\* The sequence expression n is the sequence q folded as the claim prescribes.
FoldedSeq(q, n) ==
  /\ n.t = "Seq"
  /\ Len(n.exprs) = Len(q.exprs)
  /\ \A i \in DOMAIN q.exprs :
       IF match_require(q.exprs[i], collect.decls).some
       THEN n.exprs[i] = ExpectedRequire(q, i)
       ELSE n.exprs[i].t # "Unary"

\* C25: in every sequence expression, a bare `require(s)` that is not the last
\* subexpression is emitted as !$M$import$H(s), the last subexpression and every
\* other subexpression are folded without the NOT, and the requires put their
\* bare imports into requires_in_stmt from left to right.
C25_SeqRequiresNegated ==
  pc = "done" =>
    \A q \in SeqExprs :
      /\ \E n \in SubNodesSeq(out) : FoldedSeq(q, n)
      /\ fold_with(HoistNew(collect), q).h.requires_in_stmt
           = [j \in 1..Len(RequireCalls(q)) |-> BareImport(RequireCalls(q)[j])]

\* A sequence with a require before a subexpression that is not one, and with a
\* require in the last place, has been folded.
C25_MixedSequenceReached ==
  /\ pc = "done"
  /\ \E q \in SeqExprs :
       /\ Len(q.exprs) > 2
       /\ match_require(q.exprs[1], collect.decls).some
       /\ ~match_require(q.exprs[2], collect.decls).some
       /\ match_require(q.exprs[Len(q.exprs)], collect.decls).some
       /\ \E n \in SubNodesSeq(out) : FoldedSeq(q, n)

\* ------------------------------------------------------------ C26

\* The identifiers X of the `export default function X(){}` and
\* `export default class X{}` items of the module.
DefaultDeclIdents ==
  {body[i].ident : i \in {j \in DOMAIN body : /\ body[j].t = "ExportDefaultDecl"
                                              /\ body[j].ident.t = "Ident"}}

\* C26: for `export default function X(){}` or `export default class X{}` the
\* emitted declaration is named $M$export$default, exported_symbols["default"]
\* names that declaration, and X occurs nowhere in the returned module, whether
\* the module is wrapped or not and wherever X is referenced.
C26_DefaultDeclRenamed ==
  (pc = "done" /\ DefaultDeclIdents # {}) =>
    /\ \E i \in DOMAIN out : /\ out[i].t \in {"FnDecl", "ClassDecl"}
                             /\ out[i].ident.sym = ExportName("default")
    /\ "default" \in DOMAIN res.exported_symbols
    /\ res.exported_symbols["default"].name = ExportName("default")
    /\ \A x \in DefaultDeclIdents :
         \A n \in SubNodesSeq(out) : n.t = "Ident" => n.sym # x.sym

\* C26 for the modules that are not wrapped.
C26_DefaultDeclRenamedUnwrapped ==
  (pc = "done" /\ ~collect.should_wrap) => C26_DefaultDeclRenamed

\* ------------------------------------------------------------ C27

\* The state of Collect d continues the state c: no flag has gone back, no set
\* and no table has lost a member or a key.
Continues(c, d) ==
  /\ d.static_cjs_exports => c.static_cjs_exports
  /\ c.has_cjs_exports => d.has_cjs_exports
  /\ c.is_esm => d.is_esm
  /\ c.should_wrap => d.should_wrap
  /\ c.non_static_access \subseteq d.non_static_access
  /\ c.non_static_requires \subseteq d.non_static_requires
  /\ c.wrapped_requires \subseteq d.wrapped_requires
  /\ DOMAIN c.imports \subseteq DOMAIN d.imports
  /\ DOMAIN c.exports \subseteq DOMAIN d.exports

\* C27: during the traversal of Collect, static_cjs_exports only goes from true
\* to false, has_cjs_exports, is_esm and should_wrap only from false to true, and
\* non_static_access, non_static_requires, wrapped_requires and the key sets of
\* imports and exports only grow.
C27_CollectMonotone ==
  [][(pc \in {"new", "collect"}) => Continues(collect, collect')]_vars

\* Collect has visited, after an item that changed flags and tables, an item
\* that on its own would have left them as Collect::new sets them.
C27_LaterItemKeepsEarlierFacts ==
  /\ pc = "collect"
  /\ idx = 3
  /\ ~collect.static_cjs_exports
  /\ collect.has_cjs_exports
  /\ LET alone == visit_module_item(visit_module_enter(CollectNew(collect.decls)), body[2])
     IN /\ alone.has_cjs_exports
        /\ alone.static_cjs_exports

\* ------------------------------------------------------------ C28

\* The member accesses `this.K` of a tree that stand outside every function and
\* class body, an arrow function not counting as one.
RECURSIVE ModuleThisMembers(_), ModuleThisMembersSeq(_)
ModuleThisMembers(node) ==
  CASE node.t \in {"Function", "Class"} -> {}
    [] node.t = "Member" /\ node.obj.t = "This" /\ StaticKey(node).some ->
         {node} \cup ModuleThisMembersSeq(Children(node))
    [] OTHER -> ModuleThisMembersSeq(Children(node))

ModuleThisMembersSeq(nodes) ==
  UNION {ModuleThisMembers(nodes[i]) : i \in 1..Len(nodes)}

\* Hoist has replaced the member m by $M$export$K.
RewrittenToExport(m) ==
  \E n \in SubNodesSeq(out) :
    n = Ident(ExportName(StaticKey(m).v), m.pos, CtxtEmpty)

\* C28: the two passes classify every `this` alike, so a `this.K` that Hoist has
\* rewritten to $M$export$K is one that Collect counted as a CJS export.
C28_RewrittenThisWasCounted ==
  pc = "done" =>
    \A m \in ModuleThisMembersSeq(body) :
      RewrittenToExport(m) => collect.has_cjs_exports

\* ------------------------------------------------------------ C29

\* The CJS export writes of the module as <<K, position of the target>>:
\* `exports.K = ..` and `module.exports.K = ..` anywhere, `this.K = ..` outside
\* every function and class body.
CjsExportWrites ==
  CjsWritesSeq(body, collect.decls)
    \cup {<<StaticKey(a.left.expr).v, a.left.expr.pos>> :
            a \in {n \in SubNodesSeq(body) : /\ n.t = "Assign"
                                             /\ n.left.t = "PatExpr"
                                             /\ n.left.expr \in ModuleThisMembersSeq(body)}}

\* The write w has $M$export$K for its target in the returned module.
WriteRewritten(w) ==
  \E n \in SubNodesSeq(out) :
    /\ n.t = "Assign"
    /\ n.left.t \in {"PatIdent", "PatExpr"}
    /\ Ident(ExportName(w[1]), w[2], CtxtEmpty) \in SubNodes(n.left)

\* C29: when static_cjs_exports is true and should_wrap is false, every
\* $M$export$K that is the target of a rewritten CJS export write, of
\* `exports.K = rhs`, `module.exports.K = rhs` and module-level `this.K = rhs`
\* alike, has an ambient `var $M$export$K;` among the items of the module.
C29_WrittenExportsDeclared ==
  (pc = "done" /\ collect.static_cjs_exports /\ ~collect.should_wrap) =>
    \A w \in CjsExportWrites :
      WriteRewritten(w) => \E i \in DOMAIN out : out[i] = ExportVarDecl(ExportName(w[1]))

\* C29 for the writes through `exports` and `module.exports` only.
C29_WrittenExportsDeclaredExceptThis ==
  (pc = "done" /\ collect.static_cjs_exports /\ ~collect.should_wrap) =>
    \A w \in CjsWritesSeq(body, collect.decls) :
      WriteRewritten(w) => \E i \in DOMAIN out : out[i] = ExportVarDecl(ExportName(w[1]))

\* ------------------------------------------------------------ C30

\* The specifiers of the `export {a as b}` items without a source whose orig is
\* not a key of Collect's imports, each with the index of its item.
LocalExportSpecifiers ==
  {p \in UNION {{<<i, body[i].specifiers[j]>> : j \in DOMAIN body[i].specifiers} :
                  i \in {k \in DOMAIN body : /\ body[k].t = "ExportNamed"
                                             /\ body[k].src.t = "None"}} :
     /\ p[2].kind = "Named"
     /\ id(p[2].orig) \notin DOMAIN collect.imports}

\* C30: when Collect has finished, its exports table has an entry for id(a) for
\* every specifier of a source-less `export {a as b}` whose orig a is not a key
\* of imports, so the lookup of fold_module never fails, whatever the module and
\* the order of its items.
C30_LocalExportsRecorded ==
  pc \in {"fold", "done", "aborted"} =>
    /\ \A p \in LocalExportSpecifiers : id(p[2].orig) \in DOMAIN collect.exports
    /\ \A i \in 1..(idx - 1) :
         (body[i].t = "ExportNamed" /\ body[i].src.t = "None") =>
           fold_export_specifiers(HoistNew(collect), body[i].specifiers, 1).panicked = FALSE

\* Hoist has folded a source-less export of a local binding that stands before
\* the declaration of the binding.
C30_ExportBeforeDeclarationFolded ==
  /\ pc = "done"
  /\ Len(body) = 2
  /\ \E p \in LocalExportSpecifiers :
       /\ p[1] = 1
       /\ id(p[2].orig) \in Declared(body[2])
       /\ p[2].exported \in DOMAIN res.exported_symbols

====
